---- MODULE Spec2Model ----
(***************************************************************************)
(* Verification model of the psyche Python layer:                          *)
(*   - psyche/vllm/transforms.py     weight transformations (pure)         *)
(*   - psyche/sidecar/__main__.py    the sidecar control loop              *)
(*   - psyche/vllm/protocol.py and distributed_updater.py                  *)
(*                                   header/payload broadcast protocol     *)
(*   - psyche/vllm/updater.py        the WeightUpdater daemon              *)
(*   - psyche/vllm/weight_updater.py the PsycheWeightUpdater               *)
(* Each subsystem has its own specification; the variables of the other    *)
(* subsystems stay at their idle values.                                   *)
(***************************************************************************)
EXTENDS Integers, Sequences, FiniteSets, TLC

VARIABLES
    \* ---- transforms.py: one evaluation of permute_for_rotary, then a second
    t_pc,          \* "idle" | "input" | "once" | "twice" | "raised"
    t_weight,      \* the argument weight: a 2-D tensor (sequence of rows)
    t_n_heads,     \* the argument n_heads
    t_once,        \* result of permute_for_rotary(weight, n_heads)
    t_twice,       \* result of permute_for_rotary applied to t_once
    \* ---- sidecar/__main__.py: main()
    store,         \* the rendezvous store: key (a decimal string) -> descriptor
    unordered,     \* history: a key was set while a smaller key was not yet set
    ranks,         \* the sidecar workers of the process group (world_size)
    pc,            \* per worker: "idle" | "fetch" | "barrier" | "in_barrier"
                   \*             | "dispatch" | "returned" | "raised"
    iteration,     \* per worker: main()'s iteration
    operation,     \* per worker: the descriptor fetched last
    trainer,       \* per worker: "None" | "Trainer"
    error,         \* per worker: the exception main() ended with, or "none"
    log,           \* per worker, history: what it did, in order
    group,         \* per worker: its process group, "initialized" | "destroyed"
    \* ---- vllm/protocol.py (sender, rank 0) and
    \* ---- vllm/distributed_updater.py: weight_updater_process (receiver)
    s_pc,          \* sender: "idle" | "ready" | "header" | "payload" | "shutdown" | "done"
    s_calls,       \* sender, history: calls of broadcast_parameter made
    s_metadata,    \* sender: the metadata buffer it is broadcasting
    s_tensor,      \* sender: param_tensor of the call in progress
    s_name,        \* sender: param_name of the last call that broadcast
    s_exc,         \* sender: how the last call of broadcast_parameter ended
    s_issued,      \* sender, history: broadcasts issued
    r_pc,          \* receiver: "idle" | "header" | "payload" | "exited"
    r_param,       \* receiver: param_name, shape and dtype it decoded
    r_issued,      \* receiver, history: broadcasts issued
    r_metadata,    \* receiver: its metadata buffer, as the last broadcast filled it
    r_group,       \* receiver: its process group, "none" | "initialized" | "destroyed"
    r_source,      \* history: what filled the metadata buffer, "header" | "payload"
    state_dict,    \* receiver: the shared state_dict, name -> tensor
    update_count,  \* receiver: update_count
    applied_count, \* receiver: applied_count
    \* ---- vllm/updater.py: WeightUpdater
    u_pc,            \* "idle" | "run" | "batch" (inside apply_batch_update) | "stopped"
    update_mode,     \* self.update_mode
    param_registry,  \* self.param_registry, name -> tensor
    last_good_state, \* self.last_good_state
    qkv_buffers,     \* self.qkv_buffers, layer key -> component -> tensor
    gate_up_buffers, \* self.gate_up_buffers
    u_seen,          \* keys of the dict in hand that the loop is past
    u_exc,           \* history: the exception the last apply_* call raised to run()
    u_cause,         \* history: what the last step did
    u_effects,       \* history: the registry as the last step left it, before any restore
    u_before,        \* history: the registry when the dict in hand came off the queue
    u_delivered,     \* history: group -> components delivered since its last fused write
    u_items,         \* history: items and messages handled
    \* ---- vllm/weight_updater.py: PsycheWeightUpdater
    w_pc,            \* "idle" | "ready" (constructed)
    w_state_dict,    \* self.state_dict: the entries (name, tensor) in key order
    w_model_config,  \* self.model_config: None or its attributes
    qkv_buffer,      \* self.qkv_buffer, "q" | "k" | "v" -> tensor
    gate_up_buffer,  \* self.gate_up_buffer, "w1" | "w3" -> tensor
    w_exc,           \* history: the exception the last call of apply_weight_update raised
    w_calls,         \* history: calls of apply_weight_update made
    \* ---- sidecar/__main__.py: receive_distro_results
    d_pc,            \* "idle" | "ready" | "loop" | "idx" | "val" | "append"
                     \*        | "returned" | "raised"
    d_results_len,   \* the argument results_len
    d_metadata,      \* the argument metadata
    d_param_index,   \* param_index of the first loop
    d_sparse_idx,    \* sparse_idx of the iteration, once its broadcast filled it
    d_sparse_val,    \* sparse_val of the iteration, once its broadcast filled it
    d_sparse_idxs,   \* sparse_idxs
    d_sparse_vals,   \* sparse_vals
    d_joined,        \* history: the broadcasts joined, with what rank 0 sent
    d_results,       \* the value returned
    d_exc,           \* the exception the call raised
    \* ---- sidecar/__main__.py: the train and forward branches, receive_batch
    b_operation,     \* the descriptor the workers fetched
    b_pc,            \* per worker: "idle" | "dispatch" | "input_ids" | "labels"
                     \*   | "position_ids" | "execute" | "all_reduce"
                     \*   | "in_all_reduce" | "next" | "raised"
    b_joined,        \* per worker, history: the broadcasts joined
    b_calls,         \* per worker, history: trainer, model and all-reduce calls
    b_loss,          \* per rank: its loss tensor
    b_trainer,       \* per worker: "None" | "Trainer"
    b_iteration,     \* per worker: iteration
    b_error,         \* per worker: the exception main() ended with
    \* ---- transforms.py: one call of apply_qkv_fusion or apply_gate_up_fusion
    f_pc,            \* "idle" | "input" | "qkv" | "qkv_raised" | "gate_up"
                     \*   | "gate_up_raised" | "config"
    f_args,          \* the arguments of the two functions
    f_fused,         \* the value returned, or the exception
    \* ---- vllm_patch.py: load_model of the patched runner, the updater process
    \* it spawns, and update_psyche_weights of the patched worker
    p_pc,            \* load_model: "idle" | "load" | "share_model" | "state_dict"
                     \*   | "share_tensors" | "store" | "register" | "environ"
                     \*   | "spawn" | "done" | "raised"
    p_env,           \* os.environ.get("PSYCHE_USE_DISTRIBUTED_UPDATER") == "1"
    p_model,         \* "unloaded" | "loaded"
    p_state_dict,    \* the names of state_dict, {} before model.state_dict()
    p_shared,        \* the names whose tensor share_memory_() was called on
    p_attr,          \* self.psyche_shared_state_dict is set
    p_registry,      \* _SHARED_STATE_DICTS: worker_id -> names
    p_updater,       \* "none" | "started" | "failed" | "stopped"
    p_started_with,  \* history: what existed when the updater process was started
    p_tensor,        \* name -> who wrote the tensor last
    p_receiver,      \* the name weight_updater_process is copying into, or "none"
    p_worker,        \* the name update_psyche_weights is copying into, or "none"
    \* ---- engine.py: update_weights of UpdatableLLMEngine in patched mode, and
    \* update_psyche_weights of the patched worker it calls by collective_rpc
    e_pc,            \* "idle" | "input" | "rpc" | "returned"
    e_attr,          \* hasattr(self.model_runner, "psyche_shared_state_dict")
    e_weight_dict,   \* weight_dict: a sequence of <<name, tensor>> in the dict's order
    e_state_dict,    \* the worker's shared state_dict: name -> tensor
    e_weight_updates,\* the list the worker receives
    e_result,        \* what update_psyche_weights returned, and its updated_count
    \* ---- updater.py: run() of the WeightUpdater daemon and its queue;
    \* manager.py: the puts of VLLMWithUpdater and its shutdown()
    q_pc,            \* run(): "idle" | "run" | "handling" | "stopped" | "terminated"
    q_queue,         \* weight_queue: the messages put and not yet taken
    q_update,        \* update: the message in hand
    q_exc,           \* the exception the last handler raised, caught in run()
    q_manager,       \* shutdown(): "running" | "joining" | "done"
    q_enqueued,      \* history: every message put, in order
    q_processed      \* history: the messages run() has handled, in order

vars_t == <<t_pc, t_weight, t_n_heads, t_once, t_twice>>

vars_s == <<store, unordered, ranks, pc, iteration, operation, trainer, error, log, group>>

vars_c == <<s_pc, s_calls, s_metadata, s_tensor, s_name, s_exc, s_issued,
            r_pc, r_param, r_issued, r_metadata, r_group, r_source, state_dict, update_count, applied_count>>

vars_u == <<u_pc, update_mode, param_registry, last_good_state, qkv_buffers,
            gate_up_buffers, u_seen, u_exc, u_cause, u_effects, u_before, u_delivered, u_items>>

vars_w == <<w_pc, w_state_dict, w_model_config, qkv_buffer, gate_up_buffer, w_exc, w_calls>>

vars_d == <<d_pc, d_results_len, d_metadata, d_param_index, d_sparse_idx, d_sparse_val,
            d_sparse_idxs, d_sparse_vals, d_joined, d_results, d_exc>>

vars_b == <<b_operation, b_pc, b_joined, b_calls, b_loss, b_trainer, b_iteration, b_error>>

vars_f == <<f_pc, f_args, f_fused>>

vars_p == <<p_pc, p_env, p_model, p_state_dict, p_shared, p_attr, p_registry, p_updater,
            p_started_with, p_tensor, p_receiver, p_worker>>

vars_e == <<e_pc, e_attr, e_weight_dict, e_state_dict, e_weight_updates, e_result>>

vars_q == <<q_pc, q_queue, q_update, q_exc, q_manager, q_enqueued, q_processed>>

\* What an action of one subsystem leaves alone: the other subsystems
others_t == <<vars_s, vars_c, vars_u, vars_w, vars_d, vars_b, vars_f, vars_p, vars_e, vars_q>>

others_s == <<vars_t, vars_c, vars_u, vars_w, vars_d, vars_b, vars_f, vars_p, vars_e, vars_q>>

others_c == <<vars_t, vars_s, vars_u, vars_w, vars_d, vars_b, vars_f, vars_p, vars_e, vars_q>>

others_u == <<vars_t, vars_s, vars_c, vars_w, vars_d, vars_b, vars_f, vars_p, vars_e, vars_q>>

others_w == <<vars_t, vars_s, vars_c, vars_u, vars_d, vars_b, vars_f, vars_p, vars_e, vars_q>>

others_d == <<vars_t, vars_s, vars_c, vars_u, vars_w, vars_b, vars_f, vars_p, vars_e, vars_q>>

others_b == <<vars_t, vars_s, vars_c, vars_u, vars_w, vars_d, vars_f, vars_p, vars_e, vars_q>>

others_f == <<vars_t, vars_s, vars_c, vars_u, vars_w, vars_d, vars_b, vars_p, vars_e, vars_q>>

others_p == <<vars_t, vars_s, vars_c, vars_u, vars_w, vars_d, vars_b, vars_f, vars_e, vars_q>>

others_e == <<vars_t, vars_s, vars_c, vars_u, vars_w, vars_d, vars_b, vars_f, vars_p, vars_q>>

others_q == <<vars_t, vars_s, vars_c, vars_u, vars_w, vars_d, vars_b, vars_f, vars_p, vars_e>>

vars == <<t_pc, t_weight, t_n_heads, t_once, t_twice,
          store, unordered, ranks, pc, iteration, operation, trainer, error, log, group,
          s_pc, s_calls, s_metadata, s_tensor, s_name, s_exc, s_issued,
          r_pc, r_param, r_issued, r_metadata, r_group, r_source, state_dict, update_count, applied_count,
          u_pc, update_mode, param_registry, last_good_state, qkv_buffers,
          gate_up_buffers, u_seen, u_exc, u_cause, u_effects, u_before, u_delivered, u_items,
          w_pc, w_state_dict, w_model_config, qkv_buffer, gate_up_buffer, w_exc, w_calls,
          d_pc, d_results_len, d_metadata, d_param_index, d_sparse_idx, d_sparse_val,
          d_sparse_idxs, d_sparse_vals, d_joined, d_results, d_exc,
          b_operation, b_pc, b_joined, b_calls, b_loss, b_trainer, b_iteration, b_error,
          f_pc, f_args, f_fused,
          p_pc, p_env, p_model, p_state_dict, p_shared, p_attr, p_registry, p_updater,
          p_started_with, p_tensor, p_receiver, p_worker,
          e_pc, e_attr, e_weight_dict, e_state_dict, e_weight_updates, e_result,
          q_pc, q_queue, q_update, q_exc, q_manager, q_enqueued, q_processed>>

(***************************************************************************)
(* Bounds                                                                  *)
(***************************************************************************)
MaxOutDim == 8      \* rows of a weight given to permute_for_rotary
MaxHeads == 2       \* n_heads given to permute_for_rotary
MaxInDim == 2       \* columns of a weight
MaxBase == 1        \* first entry of a generated weight
MaxKey == 3         \* iteration keys the coordinator may publish: "0" .. MaxKey-1
MaxGroupKey == 2    \* iteration keys the coordinator of a group publishes before it stops
MaxCalls == 2       \* calls of broadcast_parameter the sender makes
MaxFill == 2        \* entries of a broadcast tensor are 1 .. MaxFill
MaxItems == 4       \* batch items and queue messages the updater handles
MaxUpdates == 3     \* calls of apply_weight_update
MaxParams == 2      \* parameters of a sparse-result metadata
MaxResults == 2     \* results_len given to receive_distro_results
MaxLoss == 1        \* a loss is in 0 .. MaxLoss
MaxHeadDim == 4     \* head_dim of the weights given to the fusions
MaxLayers == 2      \* n_layers of a model configuration

(***************************************************************************)
(* Constants of the program                                                *)
(***************************************************************************)
HeaderSize == 128   \* torch.zeros(128, dtype=torch.long)
NameLimit == 100    \* if param_name_len > 100

(***************************************************************************)
(* Tensors.  A 2-D tensor is a sequence of rows, each row a sequence of    *)
(* entries of the same length.  A call that can raise returns a record     *)
(* [exc, val]: exc = "none" and the value, or the exception's name.        *)
(***************************************************************************)
Rows(t) == Len(t)

Cols(t) == IF Len(t) = 0 THEN 0 ELSE Len(t[1])

Shape(t) == <<Rows(t), Cols(t)>>

Ok(v) == [exc |-> "none", val |-> v]

Raise(e) == [exc |-> e, val |-> <<>>]

\* torch.arange(base, base + r*c).view(r, c): all entries distinct
Arange(r, c, base) == [i \in 1..r |-> [j \in 1..c |-> base + (i - 1) * c + (j - 1)]]

\* weight.view(...) and .reshape(...) work on the row-major element order
Flatten(t) == [k \in 1..(Rows(t) * Cols(t)) |-> t[((k - 1) \div Cols(t)) + 1][((k - 1) % Cols(t)) + 1]]

Unflatten(flat, r, c) == [i \in 1..r |-> [j \in 1..c |-> flat[(i - 1) * c + j]]]

(***************************************************************************)
(* transforms.py: permute_for_rotary                                       *)
(***************************************************************************)
\* split_pairs.transpose(1, 2).reshape(out_dim, in_dim) on the flat element
\* order: element [h, b, a, c] of the transposed (n_heads, 2, head_dim/2,
\* in_dim) tensor is element [h, a, b, c] of the (n_heads, head_dim/2, 2,
\* in_dim) view.
TransposePairs(flat, n_heads, half, in_dim) ==
    [k \in 1..Len(flat) |->
        LET c == (k - 1) % in_dim
            r == (k - 1) \div in_dim
            a == r % half
            b == (r \div half) % 2
            h == r \div (2 * half)
        IN  flat[((h * half + a) * 2 + b) * in_dim + c + 1]]

permute_for_rotary(weight, n_heads) ==
    LET out_dim == Rows(weight)
        in_dim == Cols(weight)
        head_dim == out_dim \div n_heads
    IN  IF head_dim % 2 # 0 THEN Raise("AssertionError")
        \* weight.view(n_heads, head_dim, in_dim) needs exactly that many elements
        ELSE IF n_heads * head_dim # out_dim THEN Raise("RuntimeError")
        ELSE Ok(Unflatten(TransposePairs(Flatten(weight), n_heads, head_dim \div 2, in_dim),
                          out_dim, in_dim))

\* No call of the transforms is in progress.
IdleT ==
    /\ t_pc = "idle"
    /\ t_weight = <<>>
    /\ t_n_heads = 1
    /\ t_once = Raise("unset")
    /\ t_twice = Raise("unset")

\* Neither the sender nor the receiver runs.
IdleC ==
    /\ s_pc = "idle"
    /\ s_calls = 0
    /\ s_metadata = <<>>
    /\ s_tensor = <<>>
    /\ s_name = <<>>
    /\ s_exc = "none"
    /\ s_issued = 0
    /\ r_pc = "idle"
    /\ r_param = <<>>
    /\ r_issued = 0
    /\ r_metadata = <<>>
    /\ r_group = "none"
    /\ r_source = "header"
    /\ state_dict = <<>>
    /\ update_count = 0
    /\ applied_count = 0

\* The updater does not run.
IdleU ==
    /\ u_pc = "idle"
    /\ update_mode = "delta"
    /\ param_registry = <<>>
    /\ last_good_state = <<>>
    /\ qkv_buffers = <<>>
    /\ gate_up_buffers = <<>>
    /\ u_seen = {}
    /\ u_exc = "none"
    /\ u_cause = "none"
    /\ u_effects = <<>>
    /\ u_before = <<>>
    /\ u_delivered = <<>>
    /\ u_items = 0

\* No PsycheWeightUpdater is constructed.
IdleW ==
    /\ w_pc = "idle"
    /\ w_state_dict = <<>>
    /\ w_model_config = [none |-> TRUE, num_attention_heads |-> 0, num_key_value_heads |-> 0]
    /\ qkv_buffer = <<>>
    /\ gate_up_buffer = <<>>
    /\ w_exc = "none"
    /\ w_calls = 0

\* No call of receive_distro_results is in progress.
IdleD ==
    /\ d_pc = "idle"
    /\ d_results_len = 0
    /\ d_metadata = <<>>
    /\ d_param_index = 0
    /\ d_sparse_idx = <<>>
    /\ d_sparse_val = <<>>
    /\ d_sparse_idxs = <<>>
    /\ d_sparse_vals = <<>>
    /\ d_joined = <<>>
    /\ d_results = <<>>
    /\ d_exc = "none"

\* No train or forward branch is followed in detail.
IdleB ==
    /\ b_operation = <<>>
    /\ b_pc = <<>>
    /\ b_joined = <<>>
    /\ b_calls = <<>>
    /\ b_loss = <<>>
    /\ b_trainer = <<>>
    /\ b_iteration = <<>>
    /\ b_error = <<>>

\* Neither fusion function is called.
IdleF ==
    /\ f_pc = "idle"
    /\ f_args = <<>>
    /\ f_fused = [exc |-> "unset", val |-> <<>>]

\* No patched runner loads a model.
IdleP ==
    /\ p_pc = "idle"
    /\ p_env = FALSE
    /\ p_model = "unloaded"
    /\ p_state_dict = {}
    /\ p_shared = {}
    /\ p_attr = FALSE
    /\ p_registry = <<>>
    /\ p_updater = "none"
    /\ p_started_with = [model |-> "unloaded", state_dict |-> {}, shared |-> {},
                         attr |-> FALSE, registered |-> FALSE]
    /\ p_tensor = <<>>
    /\ p_receiver = "none"
    /\ p_worker = "none"

IdleE ==
    /\ e_pc = "idle"
    /\ e_attr = FALSE
    /\ e_weight_dict = <<>>
    /\ e_state_dict = <<>>
    /\ e_weight_updates = <<>>
    /\ e_result = [returned |-> "none", updated_count |-> 0]

IdleQ ==
    /\ q_pc = "idle"
    /\ q_queue = <<>>
    /\ q_update = [kind |-> "none", id |-> 0]
    /\ q_exc = "none"
    /\ q_manager = "running"
    /\ q_enqueued = <<>>
    /\ q_processed = <<>>

(***************************************************************************)
(* sidecar/__main__.py: the control loop of main()                         *)
(***************************************************************************)
\* The operation descriptors the coordinator publishes (JSON objects with an
\* "operation" tag); "noop" stands for a tag main() has no branch for.
Descriptors ==
    {[operation |-> "hyperparameters", grad_accum_in_fp32 |-> f, results_len |-> 0,
      results_metadata |-> FALSE] : f \in BOOLEAN}
    \cup {[operation |-> o, grad_accum_in_fp32 |-> FALSE, results_len |-> 0,
           results_metadata |-> FALSE] :
            o \in {"train", "optimize", "extract", "forward", "exit", "noop"}}
    \* results_len > 0, with results_metadata or without (None)
    \cup {[operation |-> o, grad_accum_in_fp32 |-> FALSE, results_len |-> 1,
           results_metadata |-> m] : o \in {"train", "optimize"}, m \in BOOLEAN}

NoOperation ==
    [operation |-> "none", grad_accum_in_fp32 |-> FALSE, results_len |-> 0,
     results_metadata |-> FALSE]

\* str(iteration): the store key of an iteration index
StrKey(i) == ToString(i)

\* A faulty order: the barrier first, then the fetch.
FlowBarrierFirst == [top |-> "barrier", barrier |-> "fetch", fetch |-> "dispatch"]

\* The order of the three steps at the top of the loop body: where the loop
\* starts, and what follows the fetch and the barrier.
Flow == [top |-> "fetch", fetch |-> "barrier", barrier |-> "dispatch"]

\* A faulty increment: an index is skipped.
NextIterationSkips(i) == i + 2

\* iteration += 1
NextIteration(i) == i + 1

Event(kind, i) == [kind |-> kind, iteration |-> i]

Append1(w, evs) == [log EXCEPT ![w] = @ \o evs]

IdleS ==
    /\ store = <<>>
    /\ unordered = FALSE
    /\ ranks = {}
    /\ pc = <<>>
    /\ iteration = <<>>
    /\ operation = <<>>
    /\ trainer = <<>>
    /\ error = <<>>
    /\ log = <<>>
    /\ group = <<>>

\* dist.init_process_group(...); trainer: Optional[Trainer] = None; iteration = 0
InitS ==
    /\ store = <<>>
    /\ unordered = FALSE
    /\ ranks = {1}
    /\ pc = [w \in ranks |-> Flow.top]
    /\ iteration = [w \in ranks |-> 0]
    /\ operation = [w \in ranks |-> NoOperation]
    /\ trainer = [w \in ranks |-> "None"]
    /\ error = [w \in ranks |-> "none"]
    /\ log = [w \in ranks |-> <<>>]
    /\ group = [w \in ranks |-> "initialized"]
    /\ IdleT
    /\ IdleC
    /\ IdleU
    /\ IdleW
    /\ IdleD
    /\ IdleB
    /\ IdleF
    /\ IdleP
    /\ IdleE
    /\ IdleQ

\* The coordinator sets a key of the store, in any order.
Publish ==
    /\ \E k \in 0..(MaxKey - 1), d \in Descriptors :
          /\ StrKey(k) \notin DOMAIN store
          /\ store' = store @@ (StrKey(k) :> d)
          /\ unordered' = (unordered \/ \E j \in 0..(k - 1) : StrKey(j) \notin DOMAIN store)
    /\ UNCHANGED <<ranks, pc, iteration, operation, trainer, error, log, group, others_s>>

\* operation = store.get(str(iteration)) returns
FetchOk(w) ==
    /\ pc[w] = "fetch"
    /\ StrKey(iteration[w]) \in DOMAIN store
    /\ operation' = [operation EXCEPT ![w] = store[StrKey(iteration[w])]]
    /\ log' = Append1(w, <<Event("fetch", iteration[w])>>)
    /\ pc' = [pc EXCEPT ![w] = Flow.fetch]
    /\ UNCHANGED <<store, unordered, ranks, iteration, trainer, error, group, others_s>>

\* A faulty handler: the failed fetch ends main() with the exception.
FetchFailRaises(w) ==
    /\ pc[w] = "fetch"
    /\ StrKey(iteration[w]) \notin DOMAIN store
    /\ log' = Append1(w, <<Event("fetch_failed", iteration[w])>>)
    /\ pc' = [pc EXCEPT ![w] = "raised"]
    /\ error' = [error EXCEPT ![w] = "KeyError"]
    /\ UNCHANGED <<store, unordered, ranks, iteration, operation, trainer, group, others_s>>

\* store.get raises (the key is not set within the store's timeout):
\* except: return
FetchFail(w) ==
    /\ pc[w] = "fetch"
    /\ StrKey(iteration[w]) \notin DOMAIN store
    /\ log' = Append1(w, <<Event("fetch_failed", iteration[w])>>)
    /\ pc' = [pc EXCEPT ![w] = "returned"]
    /\ UNCHANGED <<store, unordered, ranks, iteration, operation, trainer, error, group, others_s>>

\* barrier(): the worker enters dist.barrier ...
BarrierEnter(w) ==
    /\ pc[w] = "barrier"
    /\ pc' = [pc EXCEPT ![w] = "in_barrier"]
    /\ UNCHANGED <<store, unordered, ranks, iteration, operation, trainer, error, log, group, others_s>>

\* A faulty barrier: a worker returns from it without waiting for the others.
BarrierPassAlone ==
    /\ \E w \in ranks :
          /\ pc[w] = "in_barrier"
          /\ pc' = [pc EXCEPT ![w] = Flow.barrier]
          /\ log' = Append1(w, <<Event("barrier", iteration[w])>>)
    /\ UNCHANGED <<store, unordered, ranks, iteration, operation, trainer, error, group, others_s>>

\* ... and all return from it once every worker of the group has entered.
BarrierPass ==
    /\ ranks # {}
    /\ \A w \in ranks : pc[w] = "in_barrier"
    /\ pc' = [w \in ranks |-> Flow.barrier]
    /\ log' = [w \in ranks |-> log[w] \o <<Event("barrier", iteration[w])>>]
    /\ UNCHANGED <<store, unordered, ranks, iteration, operation, trainer, error, group, others_s>>

Dispatching(w, tag) ==
    /\ pc[w] = "dispatch"
    /\ operation[w].operation = tag

\* The branch ran to its end: iteration += 1 and back to the top of the loop.
Completed(w, evs) ==
    /\ log' = Append1(w, evs)
    /\ iteration' = [iteration EXCEPT ![w] = NextIteration(@)]
    /\ pc' = [pc EXCEPT ![w] = Flow.top]
    /\ error' = error

\* The branch raised: main() ends with the exception.
Raised(w, e) ==
    /\ log' = log
    /\ iteration' = iteration
    /\ pc' = [pc EXCEPT ![w] = "raised"]
    /\ error' = [error EXCEPT ![w] = e]

\* A faulty branch: the trainer is constructed whatever grad_accum_in_fp32 is.
DoHyperparametersUnchecked(w) ==
    /\ Dispatching(w, "hyperparameters")
    /\ Completed(w, <<Event("configure", iteration[w])>>)
    /\ trainer' = [trainer EXCEPT ![w] = "Trainer"]
    /\ UNCHANGED <<store, unordered, ranks, operation, group, others_s>>

DoHyperparameters(w) ==
    /\ Dispatching(w, "hyperparameters")
    /\ IF operation[w].grad_accum_in_fp32
       THEN Raised(w, "ValueError") /\ trainer' = trainer
       ELSE /\ Completed(w, <<Event("configure", iteration[w])>>)
            /\ trainer' = [trainer EXCEPT ![w] = "Trainer"]
    /\ UNCHANGED <<store, unordered, ranks, operation, group, others_s>>

\* The work of a branch that takes sparse results first
SparseEvents(w) ==
    IF operation[w].results_len > 0 /\ operation[w].results_metadata
    THEN <<Event("receive_distro_results", iteration[w])>>
    ELSE <<>>

DoTrain(w) ==
    /\ Dispatching(w, "train")
    /\ IF trainer[w] = "None"
       THEN Raised(w, "RuntimeError")
       ELSE Completed(w, SparseEvents(w) \o
                         <<Event("receive_batch", iteration[w]),
                           Event("trainer.train", iteration[w]),
                           Event("all_reduce", iteration[w])>>)
    /\ UNCHANGED <<store, unordered, ranks, operation, trainer, group, others_s>>

DoOptimize(w) ==
    /\ Dispatching(w, "optimize")
    /\ IF trainer[w] = "None"
       THEN Raised(w, "RuntimeError")
       ELSE Completed(w, SparseEvents(w) \o <<Event("trainer.optimize", iteration[w])>>)
    /\ UNCHANGED <<store, unordered, ranks, operation, trainer, group, others_s>>

\* A faulty branch: extract without the trainer check.
DoExtractUnchecked(w) ==
    /\ Dispatching(w, "extract")
    /\ Completed(w, <<Event("trainer.extract", iteration[w])>>)
    /\ UNCHANGED <<store, unordered, ranks, operation, trainer, group, others_s>>

DoExtract(w) ==
    /\ Dispatching(w, "extract")
    /\ IF trainer[w] = "None"
       THEN Raised(w, "RuntimeError")
       ELSE Completed(w, <<Event("trainer.extract", iteration[w])>>)
    /\ UNCHANGED <<store, unordered, ranks, operation, trainer, group, others_s>>

\* The forward branch uses the model, not the trainer, and checks nothing.
DoForward(w) ==
    /\ Dispatching(w, "forward")
    /\ Completed(w, <<Event("receive_batch", iteration[w]),
                      Event("model.forward", iteration[w])>>)
    /\ UNCHANGED <<store, unordered, ranks, operation, trainer, group, others_s>>

\* return: nothing is done to the process group
DoExit(w) ==
    /\ Dispatching(w, "exit")
    /\ log' = Append1(w, <<Event("exit", iteration[w])>>)
    /\ pc' = [pc EXCEPT ![w] = "returned"]
    /\ UNCHANGED <<store, unordered, ranks, iteration, operation, trainer, error, group, others_s>>

\* A tag none of the branches matches: only iteration += 1
DoOther(w) ==
    /\ pc[w] = "dispatch"
    /\ operation[w].operation \notin
          {"hyperparameters", "train", "optimize", "extract", "forward", "exit"}
    /\ Completed(w, <<>>)
    /\ UNCHANGED <<store, unordered, ranks, operation, trainer, group, others_s>>

NextS ==
    \/ Publish
    \/ BarrierPass
    \/ \E w \in ranks : FetchOk(w)
    \/ \E w \in ranks : FetchFail(w)
    \/ \E w \in ranks : BarrierEnter(w)
    \/ \E w \in ranks : DoHyperparameters(w)
    \/ \E w \in ranks : DoTrain(w)
    \/ \E w \in ranks : DoOptimize(w)
    \/ \E w \in ranks : DoExtract(w)
    \/ \E w \in ranks : DoForward(w)
    \/ \E w \in ranks : DoExit(w)
    \/ \E w \in ranks : DoOther(w)

SpecS == InitS /\ [][NextS]_vars

\* ---------------------------------------------------------------------------
\* Several sidecar workers of one process group (world_size = 2), each running
\* main() against the same store.
InitG ==
    /\ store = <<>>
    /\ unordered = FALSE
    /\ ranks = {1, 2}
    /\ pc = [w \in ranks |-> Flow.top]
    /\ iteration = [w \in ranks |-> 0]
    /\ operation = [w \in ranks |-> NoOperation]
    /\ trainer = [w \in ranks |-> "None"]
    /\ error = [w \in ranks |-> "none"]
    /\ log = [w \in ranks |-> <<>>]
    /\ group = [w \in ranks |-> "initialized"]
    /\ IdleT
    /\ IdleC
    /\ IdleU
    /\ IdleW
    /\ IdleD
    /\ IdleB
    /\ IdleF
    /\ IdleP
    /\ IdleE
    /\ IdleQ

\* The descriptors the coordinator gives to a group: no fp32 accumulation, and
\* sparse results, with their metadata, on a train step only.
GroupDescriptors ==
    {d \in Descriptors :
        /\ ~d.grad_accum_in_fp32
        /\ d.results_len > 0 => (d.results_metadata /\ d.operation = "train")}

\* The coordinator of a group publishes at most MaxGroupKey keys
PublishG ==
    /\ Publish
    /\ \A k \in DOMAIN store' :
          /\ store'[k] \in GroupDescriptors
          /\ k \in {StrKey(i) : i \in 0..(MaxGroupKey - 1)}

\* A faulty barrier: it has no timeout, the worker waits for ever.
BarrierWaitsForEver(w) ==
    /\ pc[w] = "in_barrier"
    /\ \E other \in ranks : pc[other] # "in_barrier"
    /\ UNCHANGED vars

\* barrier() raises in a worker that has waited for the timeout of the process
\* group (init_process_group(timeout=timedelta(hours=2))) without every
\* worker having entered: main() ends with the exception
BarrierTimeout(w) ==
    /\ pc[w] = "in_barrier"
    /\ \E other \in ranks : pc[other] # "in_barrier"
    /\ pc' = [pc EXCEPT ![w] = "raised"]
    /\ error' = [error EXCEPT ![w] = "DistBackendError"]
    /\ UNCHANGED <<store, unordered, ranks, iteration, operation, trainer, log, group, others_s>>

\* The steps of one worker from the dispatch on
Dispatch(w) ==
    \/ DoHyperparameters(w)
    \/ DoTrain(w)
    \/ DoOptimize(w)
    \/ DoExtract(w)
    \/ DoForward(w)
    \/ DoExit(w)
    \/ DoOther(w)

NextG ==
    \/ PublishG
    \/ BarrierPass
    \/ \E w \in ranks : BarrierTimeout(w)
    \/ \E w \in ranks : FetchOk(w)
    \/ \E w \in ranks : FetchFail(w)
    \/ \E w \in ranks : BarrierEnter(w)
    \/ \E w \in ranks : DoHyperparameters(w)
    \/ \E w \in ranks : DoTrain(w)
    \/ \E w \in ranks : DoOptimize(w)
    \/ \E w \in ranks : DoExtract(w)
    \/ \E w \in ranks : DoForward(w)
    \/ \E w \in ranks : DoExit(w)
    \/ \E w \in ranks : DoOther(w)

SpecG == InitG /\ [][NextG]_vars

\* The steps of one worker process
Worker(w) ==
    \/ FetchOk(w)
    \/ FetchFail(w)
    \/ BarrierEnter(w)
    \/ BarrierTimeout(w)
    \/ Dispatch(w)

\* Every worker process runs: a store.get returns or times out, a worker at
\* the barrier enters it, the barrier returns once all have entered or times
\* out, and a dispatched branch ends.  The coordinator is not obliged to
\* publish.
FairSpecG ==
    /\ SpecG
    /\ WF_vars(BarrierPass)
    /\ \A w \in {1, 2} : WF_vars(Worker(w))

(***************************************************************************)
(* vllm/protocol.py and vllm/distributed_updater.py: the parameter         *)
(* broadcast.  A name is a sequence of code points (below 2048), a         *)
(* broadcast tensor a record [shape, dtype, data] with its entries in      *)
(* row-major order.  A broadcast is a collective call: it returns for the  *)
(* sender and the receiver together, once both have issued it.             *)
(***************************************************************************)
\* protocol.py: DTYPE_TO_ID
DTYPE_TO_ID ==
    [float32 |-> 0, float16 |-> 1, bfloat16 |-> 2, float64 |-> 3, int64 |-> 4,
     int32 |-> 5, int16 |-> 6, int8 |-> 7, uint8 |-> 8]

\* distributed_updater.py: DTYPE_MAP
DTYPE_MAP ==
    <<"float32", "float16", "bfloat16", "float64", "int64", "int32", "int16",
      "int8", "uint8">>

DtypeKnown(id) == id \in 0..(Len(DTYPE_MAP) - 1)

\* param_name.encode("utf-8"), by halves
RECURSIVE EncodeUtf8(_)
EncodeUtf8(name) ==
    IF name = <<>> THEN <<>>
    ELSE IF Len(name) = 1
    THEN LET cp == name[1]
         IN  IF cp < 128 THEN <<cp>> ELSE <<192 + (cp \div 64), 128 + (cp % 64)>>
    ELSE LET mid == Len(name) \div 2
         IN  EncodeUtf8(SubSeq(name, 1, mid)) \o EncodeUtf8(SubSeq(name, mid + 1, Len(name)))

IsContinuation(b) == b \in 128..191

\* param_name_bytes.decode("utf-8"): [ok, name]; by halves, cut where a
\* character starts
RECURSIVE DecodeUtf8(_)
DecodeUtf8(bytes) ==
    IF bytes = <<>> THEN [ok |-> TRUE, name |-> <<>>]
    ELSE IF Len(bytes) = 1
    THEN [ok |-> bytes[1] < 128, name |-> IF bytes[1] < 128 THEN bytes ELSE <<>>]
    ELSE IF Len(bytes) = 2 /\ bytes[1] >= 128
    THEN IF bytes[1] \in 194..223 /\ IsContinuation(bytes[2])
         THEN [ok |-> TRUE, name |-> <<(bytes[1] - 192) * 64 + (bytes[2] - 128)>>]
         ELSE [ok |-> FALSE, name |-> <<>>]
    ELSE LET mid == (Len(bytes) \div 2) + 1
             cut == IF IsContinuation(bytes[mid]) /\ mid < Len(bytes) THEN mid + 1 ELSE mid
             left == DecodeUtf8(SubSeq(bytes, 1, cut - 1))
             right == DecodeUtf8(SubSeq(bytes, cut, Len(bytes)))
         IN  IF left.ok /\ right.ok
             THEN [ok |-> TRUE, name |-> left.name \o right.name]
             ELSE [ok |-> FALSE, name |-> <<>>]

\* .rstrip("\x00")
RECURSIVE RStripNul(_)
RStripNul(name) ==
    IF name # <<>> /\ name[Len(name)] = 0
    THEN RStripNul(SubSeq(name, 1, Len(name) - 1))
    ELSE name

RECURSIVE Product(_)
Product(shape) == IF shape = <<>> THEN 1 ELSE Head(shape) * Product(Tail(shape))

\* A tensor of a shape and dtype whose entries all equal fill
Full(shape, dtype, fill) ==
    [shape |-> shape, dtype |-> dtype, data |-> [k \in 1..Product(shape) |-> fill]]

\* metadata[...] = ... on a zeroed buffer of 128 entries: the written prefix
\* followed by zeros; writing past the buffer is an IndexError.
Metadata(prefix) ==
    IF Len(prefix) > HeaderSize THEN Raise("IndexError")
    ELSE Ok([k \in 1..HeaderSize |-> IF k <= Len(prefix) THEN prefix[k] ELSE 0])

\* broadcast_parameter up to its first broadcast: the metadata buffer, or
\* the exception it raises
EncodeHeader(param_name, param_tensor) ==
    LET param_name_bytes == EncodeUtf8(param_name)
        param_name_len == Len(param_name_bytes)
    IN  IF param_name_len > NameLimit THEN Raise("ValueError")
        ELSE IF 3 + param_name_len + Len(param_tensor.shape) > HeaderSize
             THEN Raise("IndexError")
        ELSE IF param_tensor.dtype \notin DOMAIN DTYPE_TO_ID THEN Raise("ValueError")
        ELSE Metadata(<<0, param_name_len>> \o param_name_bytes
                      \o <<Len(param_tensor.shape)>> \o param_tensor.shape
                      \o <<DTYPE_TO_ID[param_tensor.dtype]>>)

\* torch.zeros(128, dtype=torch.long)
ZeroHeader == [k \in 1..HeaderSize |-> 0]

\* broadcast_shutdown_signal: metadata[0] = -1
ShutdownHeader == [k \in 1..HeaderSize |-> IF k = 1 THEN -1 ELSE 0]

NoParam == [kind |-> "none", name |-> <<>>, shape |-> <<>>, dtype |-> "none"]

\* metadata[index] with Python's indexing: from 0, a negative index counts
\* from the end
Item(metadata, index) ==
    IF index >= HeaderSize \/ index < -HeaderSize THEN Raise("IndexError")
    ELSE Ok(metadata[(IF index < 0 THEN index + HeaderSize ELSE index) + 1])

\* A decode that skips a header with a bad name length and goes on
DecodeHeaderAnyLength(metadata) ==
    IF metadata[1] = -1 THEN [NoParam EXCEPT !.kind = "shutdown"]
    ELSE IF metadata[2] <= 0 \/ metadata[2] > NameLimit
    THEN [NoParam EXCEPT !.kind = "unknown_dtype"]
    ELSE [kind |-> "param", name |-> <<metadata[3]>>, shape |-> <<metadata[5]>>,
          dtype |-> "float32"]

\* A decode that looks at the name length before the shutdown flag
DecodeHeaderLengthFirst(metadata) ==
    IF metadata[2] = 0 \/ metadata[2] > NameLimit
    THEN [NoParam EXCEPT !.kind = IF metadata[1] = -1 THEN "shutdown" ELSE "invalid_len"]
    ELSE [kind |-> "param", name |-> <<metadata[3]>>, shape |-> <<metadata[5]>>,
          dtype |-> "float32"]

\* weight_updater_process, from the received metadata to the payload
\* broadcast: what the loop does next, and the decoded name, shape and dtype
DecodeHeader(metadata) ==
    LET param_name_len == metadata[2]
    IN  IF metadata[1] = -1 THEN [NoParam EXCEPT !.kind = "shutdown"]
        ELSE IF param_name_len = 0 \/ param_name_len > NameLimit
             THEN [NoParam EXCEPT !.kind = "invalid_len"]
        ELSE LET decoded == DecodeUtf8([k \in 1..param_name_len |-> metadata[2 + k] % 256])
                 ndim == metadata[3 + param_name_len]
                 dtype_id == Item(metadata, 3 + param_name_len + ndim)
             IN  IF ~decoded.ok \/ dtype_id.exc # "none"
                 THEN [NoParam EXCEPT !.kind = "exception"]
                 ELSE LET shape == [i \in 1..ndim |-> metadata[3 + param_name_len + i]]
                      IN  IF ~DtypeKnown(dtype_id.val)
                          THEN [NoParam EXCEPT !.kind = "unknown_dtype"]
                          ELSE IF \E i \in 1..ndim : shape[i] < 0
                          THEN [NoParam EXCEPT !.kind = "exception"]
                          ELSE [kind |-> "param", name |-> RStripNul(decoded.name),
                                shape |-> shape, dtype |-> DTYPE_MAP[dtype_id.val + 1]]

\* An apply that drops the tensor
ApplyNothing(sd, param_name, param_tensor) == sd

\* An apply that does not compare the shapes
ApplyUnchecked(sd, param_name, param_tensor) ==
    IF param_name \in DOMAIN sd
    THEN [sd EXCEPT ![param_name].data = param_tensor.data]
    ELSE sd

\* Step 3 of the loop: apply the received tensor to state_dict
ApplyToStateDict(sd, param_name, param_tensor) ==
    IF param_name \in DOMAIN sd /\ sd[param_name].shape = param_tensor.shape
    THEN [sd EXCEPT ![param_name].data = param_tensor.data]
    ELSE sd

Applies(sd, param_name, param_tensor) ==
    param_name \in DOMAIN sd /\ sd[param_name].shape = param_tensor.shape

\* The names the sender uses: "", "a", "b", "c", "a\0", "e-acute", and names of
\* exactly and just over the limit of 100 bytes
LongName(n) == [k \in 1..n |-> 97]

SenderNames ==
    {<<>>, <<97>>, <<98>>, <<99>>, <<97, 0>>, <<233>>,
     LongName(NameLimit), LongName(NameLimit + 1)}

\* A shape of so many dimensions that, after a name of NameLimit bytes, the
\* dtype id has no slot left in the header
DeepShape == [i \in 1..(HeaderSize - NameLimit - 3) |-> 1]

SenderTensors ==
    {Full(shape, dtype, fill) :
        shape \in {<<2>>, <<1, 2>>}, dtype \in {"float32", "int64", "bool"},
        fill \in 1..MaxFill}
    \cup {Full(DeepShape, "float32", 1)}

\* The receiver's registry: "a" and "b", and the sender at the start
InitC ==
    /\ s_pc = "ready"
    /\ s_calls = 0
    /\ s_metadata = <<>>
    /\ s_tensor = <<>>
    /\ s_name = <<>>
    /\ s_exc = "none"
    /\ s_issued = 0
    /\ r_pc = "header"
    /\ r_param = NoParam
    /\ r_issued = 1
    /\ r_metadata = ZeroHeader
    /\ r_group = "initialized"
    /\ r_source = "header"
    /\ state_dict = (<<97>> :> Full(<<2>>, "float32", 0)) @@ (<<98>> :> Full(<<1, 2>>, "float32", 0))
    /\ update_count = 0
    /\ applied_count = 0
    /\ IdleT
    /\ IdleS
    /\ IdleU
    /\ IdleW
    /\ IdleD
    /\ IdleB
    /\ IdleF
    /\ IdleP
    /\ IdleE
    /\ IdleQ

\* A faulty sender: the header is broadcast before the dtype is looked up.
CallBroadcastParameterLateCheck ==
    /\ s_pc = "ready"
    /\ s_calls < MaxCalls
    /\ \E param_name \in SenderNames, param_tensor \in SenderTensors :
          LET header == EncodeHeader(param_name, param_tensor)
              late == param_tensor.dtype \notin DOMAIN DTYPE_TO_ID
          IN  /\ s_exc' = header.exc
              /\ IF header.exc = "none"
                 THEN /\ s_pc' = "header"
                      /\ s_metadata' = header.val
                      /\ s_tensor' = param_tensor
                      /\ s_name' = param_name
                      /\ s_issued' = s_issued + 1
                 ELSE /\ s_issued' = IF late THEN s_issued + 1 ELSE s_issued
                      /\ UNCHANGED <<s_pc, s_metadata, s_tensor, s_name>>
    /\ s_calls' = s_calls + 1
    /\ UNCHANGED <<r_pc, r_param, r_issued, r_metadata, r_group, r_source, state_dict, update_count, applied_count, others_c>>

\* broadcast_parameter(param_name, param_tensor), to its first broadcast
CallBroadcastParameter ==
    /\ s_pc = "ready"
    /\ s_calls < MaxCalls
    /\ \E param_name \in SenderNames, param_tensor \in SenderTensors :
          LET header == EncodeHeader(param_name, param_tensor)
          IN  /\ s_exc' = header.exc
              /\ IF header.exc = "none"
                 THEN /\ s_pc' = "header"
                      /\ s_metadata' = header.val
                      /\ s_tensor' = param_tensor
                      /\ s_name' = param_name
                      /\ s_issued' = s_issued + 1
                 ELSE UNCHANGED <<s_pc, s_metadata, s_tensor, s_name, s_issued>>
    /\ s_calls' = s_calls + 1
    /\ UNCHANGED <<r_pc, r_param, r_issued, r_metadata, r_group, r_source, state_dict, update_count, applied_count, others_c>>

\* broadcast_shutdown_signal(), to its broadcast
CallBroadcastShutdown ==
    /\ s_pc = "ready"
    /\ s_pc' = "shutdown"
    /\ s_metadata' = ShutdownHeader
    /\ s_issued' = s_issued + 1
    /\ UNCHANGED <<s_calls, s_tensor, s_name, s_exc, r_pc, r_param, r_issued, r_metadata,
                   r_group, r_source, state_dict,
                   update_count, applied_count, others_c>>

\* The receiver's loop from the return of dist.broadcast(metadata) to its next
\* broadcast: it decodes the buffer and leaves the loop (and destroys the
\* process group), waits for the next header, or issues the payload broadcast.
Received(metadata) ==
    LET decoded == DecodeHeader(metadata)
        leaves == decoded.kind \in {"shutdown", "invalid_len", "exception"}
    IN  /\ r_metadata' = metadata
        /\ r_param' = decoded
        /\ r_pc' = IF leaves THEN "exited"
                   ELSE IF decoded.kind = "unknown_dtype" THEN "header" ELSE "payload"
        /\ r_issued' = IF leaves THEN r_issued ELSE r_issued + 1
        /\ r_group' = IF leaves THEN "destroyed" ELSE r_group

\* dist.broadcast(metadata) returns on both sides.  The sender goes on to its
\* payload broadcast (or returns from broadcast_shutdown_signal); the receiver
\* decodes the header.
BroadcastMetadata ==
    /\ s_pc \in {"header", "shutdown"}
    /\ r_pc = "header"
    /\ Received(s_metadata)
    /\ r_source' = "header"
    /\ s_pc' = IF s_pc = "shutdown" THEN "done" ELSE "payload"
    /\ s_issued' = IF s_pc = "shutdown" THEN s_issued ELSE s_issued + 1
    /\ s_metadata' = <<>>
    /\ UNCHANGED <<s_calls, s_tensor, s_name, s_exc, state_dict, update_count, applied_count,
                   others_c>>

\* dist.broadcast(param_tensor) returns on both sides; the receiver applies
\* the tensor and issues the next metadata broadcast.
BroadcastTensor ==
    /\ s_pc = "payload"
    /\ r_pc = "payload"
    /\ LET received == [shape |-> r_param.shape, dtype |-> r_param.dtype,
                        data |-> s_tensor.data]
       IN  /\ state_dict' = ApplyToStateDict(state_dict, r_param.name, received)
           /\ applied_count' = IF Applies(state_dict, r_param.name, received)
                               THEN applied_count + 1 ELSE applied_count
    /\ update_count' = update_count + 1
    /\ s_pc' = "ready"
    /\ s_tensor' = <<>>
    /\ r_pc' = "header"
    /\ r_issued' = r_issued + 1
    /\ UNCHANGED <<s_calls, s_metadata, s_name, s_exc, s_issued, r_param, r_metadata,
                   r_group, r_source,
                   others_c>>

NextC ==
    \/ CallBroadcastParameter
    \/ CallBroadcastShutdown
    \/ BroadcastMetadata
    \/ BroadcastTensor

SpecC == InitC /\ [][NextC]_vars

(***************************************************************************)
(* The receiver with any rank 0: besides protocol.py's two functions the   *)
(* sender may broadcast a header of its own making, followed by the        *)
(* payload unless the header carries the shutdown flag.                    *)
(***************************************************************************)
RawHeader(prefix) == [k \in 1..HeaderSize |-> IF k <= Len(prefix) THEN prefix[k] ELSE 0]

\* Headers: the shutdown flag over the fields of a parameter and over
\* garbage, name lengths 0 and 101, dtype codes 9 and -1, and two headers as
\* broadcast_parameter builds them
RawHeaders ==
    {RawHeader(<<-1, 1, 97, 1, 2, 0>>), RawHeader(<<-1, 101, 255, -3, 77>>),
     RawHeader(<<0, 0, 97, 1, 2, 0>>), RawHeader(<<0, NameLimit + 1, 97, 1, 2, 0>>),
     RawHeader(<<0, 1, 97, 1, 2, 9>>), RawHeader(<<0, 1, 97, 1, 2, -1>>),
     RawHeader(<<0, 1, 97, 1, 2, 0>>), RawHeader(<<0, 1, 99, 1, 2, 0>>)}

CallRawHeader ==
    /\ s_pc = "ready"
    /\ s_calls < MaxCalls
    /\ \E header \in RawHeaders, fill \in 1..MaxFill :
          /\ s_pc' = IF header[1] = -1 THEN "shutdown" ELSE "header"
          /\ s_metadata' = header
          /\ s_tensor' = Full(<<2>>, "float32", fill)
    /\ s_exc' = "none"
    /\ s_issued' = s_issued + 1
    /\ s_calls' = s_calls + 1
    /\ UNCHANGED <<s_name, r_pc, r_param, r_issued, r_metadata, r_group, r_source,
                   state_dict, update_count, applied_count, others_c>>

\* The sender is in its payload broadcast and the receiver, having skipped
\* the payload, in its next metadata broadcast: a collective call with
\* buffers that do not match.  Its outcome is not defined: the receiver's
\* buffer is filled with something that is not a header and the loop goes on
\* with it, or the call fails at the receiver, which leaves its loop through
\* the exception handler; or it never returns (no step).
MismatchedBroadcast ==
    /\ s_pc = "payload"
    /\ r_pc = "header"
    /\ r_source' = "payload"
    /\ \/ /\ \E garbage \in RawHeaders \cup {ZeroHeader} : Received(garbage)
          /\ s_pc' = "ready"
          /\ s_tensor' = <<>>
       \/ /\ r_pc' = "exited"
          /\ r_group' = "destroyed"
          /\ UNCHANGED <<s_pc, s_tensor, r_param, r_issued, r_metadata>>
    /\ UNCHANGED <<s_calls, s_metadata, s_name, s_exc, s_issued, state_dict, update_count,
                   applied_count, others_c>>

NextR ==
    \/ CallBroadcastParameter
    \/ CallBroadcastShutdown
    \/ CallRawHeader
    \/ BroadcastMetadata
    \/ BroadcastTensor
    \/ MismatchedBroadcast

SpecR == InitC /\ [][NextR]_vars

(***************************************************************************)
(* vllm/updater.py: WeightUpdater, with the fusion functions of            *)
(* vllm/transforms.py.  A name is the sequence of its dot-separated parts, *)
(* so that split(".") and ".".join() are what they are on strings.  The    *)
(* mutable fields of the updater travel through the methods as a record    *)
(* self; a method returns [exc, self, cause].                              *)
(***************************************************************************)
ModelConfig ==
    [n_layers |-> 2, n_heads |-> 2, n_kv_heads |-> 1, head_dim |-> 4,
     hidden_dim |-> 1, intermediate_dim |-> 2]

LayerParam(layer_idx, block, proj) ==
    <<"model", "layers", ToString(layer_idx), block, proj, "weight">>

LmHead == <<"lm_head", "weight">>

Zeros(r, c) == [i \in 1..r |-> [j \in 1..c |-> 0]]

RECURSIVE ConcatRows(_)
ConcatRows(tensors) ==
    IF tensors = <<>> THEN <<>> ELSE Head(tensors) \o ConcatRows(Tail(tensors))

\* torch.cat(tensors, dim=0): the sizes outside dim 0 must agree
Cat(tensors) ==
    IF \E i \in 1..Len(tensors) : Cols(tensors[i]) # Cols(tensors[1])
    THEN Raise("RuntimeError")
    ELSE Ok(ConcatRows(tensors))

\* A fusion that permutes the key block with n_heads
apply_qkv_fusion_by_n_heads(q_weight, k_weight, v_weight, n_heads, n_kv_heads, apply_rotary) ==
    LET q == IF apply_rotary THEN permute_for_rotary(q_weight, n_heads) ELSE Ok(q_weight)
        k == IF apply_rotary THEN permute_for_rotary(k_weight, n_heads) ELSE Ok(k_weight)
    IN  IF q.exc # "none" THEN q
        ELSE IF k.exc # "none" THEN k
        ELSE Cat(<<q.val, k.val, v_weight>>)

\* A fusion in the order up, gate
apply_up_gate_fusion(gate_weight, up_weight) == Cat(<<up_weight, gate_weight>>)

\* transforms.py: apply_qkv_fusion
apply_qkv_fusion(q_weight, k_weight, v_weight, n_heads, n_kv_heads, apply_rotary) ==
    LET q == IF apply_rotary THEN permute_for_rotary(q_weight, n_heads) ELSE Ok(q_weight)
        k == IF apply_rotary THEN permute_for_rotary(k_weight, n_kv_heads) ELSE Ok(k_weight)
    IN  IF q.exc # "none" THEN q
        ELSE IF k.exc # "none" THEN k
        ELSE Cat(<<q.val, k.val, v_weight>>)

\* transforms.py: apply_gate_up_fusion
apply_gate_up_fusion(gate_weight, up_weight) == Cat(<<gate_weight, up_weight>>)

\* transforms.py: apply_rotary_permute
apply_rotary_permute(weight, n_heads) == permute_for_rotary(weight, n_heads)

\* transforms.py: infer_transform_config_llama
infer_transform_config_llama(model_config, layer_idx) ==
    [param_name \in {LayerParam(layer_idx, "self_attn", c \o "_proj") : c \in {"q", "k", "v"}}
        |-> LET component == CHOOSE c \in {"q", "k", "v"} :
                                 param_name = LayerParam(layer_idx, "self_attn", c \o "_proj")
            IN  [type |-> "qkv_fusion", n_heads |-> model_config.n_heads,
                 n_kv_heads |-> model_config.n_kv_heads, component |-> component,
                 apply_rotary |-> component \in {"q", "k"}]]
    @@
    [param_name \in {LayerParam(layer_idx, "mlp", c \o "_proj") : c \in {"gate", "up"}}
        |-> [type |-> "gate_up_fusion",
             component |-> CHOOSE c \in {"gate", "up"} :
                               param_name = LayerParam(layer_idx, "mlp", c \o "_proj")]]

\* A builder that leaves out the last layer
build_transform_config_short(model_config) ==
    LET layers == 0..(model_config.n_layers - 2)
        names == UNION {DOMAIN infer_transform_config_llama(model_config, l) : l \in layers}
    IN  [n \in names |->
            infer_transform_config_llama(model_config,
                CHOOSE l \in layers :
                    n \in DOMAIN infer_transform_config_llama(model_config, l))[n]]

\* transforms.py: build_full_transform_config_llama; a later layer's entry
\* replaces an earlier one of the same name (full_config.update)
build_full_transform_config_llama(model_config) ==
    LET layers == 0..(model_config.n_layers - 1)
        names == UNION {DOMAIN infer_transform_config_llama(model_config, l) : l \in layers}
        LastLayer(n) == CHOOSE l \in layers :
            /\ n \in DOMAIN infer_transform_config_llama(model_config, l)
            /\ \A m \in layers :
                  n \in DOMAIN infer_transform_config_llama(model_config, m) => m <= l
    IN  [n \in names |-> infer_transform_config_llama(model_config, LastLayer(n))[n]]

transform_config == build_full_transform_config_llama(ModelConfig)

Result(exc, self, cause) == [exc |-> exc, self |-> self, cause |-> cause]

\* In-place operations take an operand that broadcasts to the parameter
Broadcastable(param, t) ==
    /\ Rows(t) \in {1, Rows(param)}
    /\ Cols(t) \in {1, Cols(param)}

Expand(param, t) ==
    [i \in 1..Rows(param) |-> [j \in 1..Cols(param) |->
        t[IF Rows(t) = 1 THEN 1 ELSE i][IF Cols(t) = 1 THEN 1 ELSE j]]]

AddInPlace(param, t) ==
    [i \in 1..Rows(param) |-> [j \in 1..Cols(param) |-> param[i][j] + Expand(param, t)[i][j]]]

\* A checkpoint that saves nothing new
checkpoint_nothing(registry, good) == good

\* WeightUpdater._checkpoint_state
checkpoint_state(registry, good) == [name \in DOMAIN registry |-> registry[name]] @@ good

\* A restore that restores nothing
restore_nothing(registry, good) == registry

\* WeightUpdater._restore_last_good_state
restore_last_good_state(registry, good) ==
    [name \in DOMAIN registry |->
        IF name \in DOMAIN good THEN good[name] ELSE registry[name]]

\* WeightUpdater._apply_direct_update
apply_direct_update(self, param_name, delta_tensor) ==
    IF param_name \notin DOMAIN self.param_registry
    THEN Result("KeyError", self, "key_error")
    ELSE LET param == self.param_registry[param_name]
         IN  IF ~Broadcastable(param, delta_tensor)
             THEN Result("RuntimeError", self, "shape_error")
             ELSE Result("none",
                         [self EXCEPT !.param_registry[param_name] =
                             IF update_mode = "delta" THEN AddInPlace(param, delta_tensor)
                             ELSE Expand(param, delta_tensor)],
                         "direct")

\* WeightUpdater._extract_layer_key
extract_layer_key(param_name) ==
    IF \E i \in 1..Len(param_name) : param_name[i] = "layers"
    THEN LET layers_idx == CHOOSE i \in 1..Len(param_name) :
                 /\ param_name[i] = "layers"
                 /\ \A j \in 1..(i - 1) : param_name[j] # "layers"
         IN  SubSeq(param_name, 1, IF layers_idx + 1 <= Len(param_name)
                                   THEN layers_idx + 1 ELSE Len(param_name))
    ELSE param_name

\* WeightUpdater._get_vllm_qkv_param_name
get_vllm_qkv_param_name(layer_key) == layer_key \o <<"self_attn", "qkv_proj", "weight">>

\* WeightUpdater._get_vllm_gate_up_param_name
get_vllm_gate_up_param_name(layer_key) == layer_key \o <<"mlp", "gate_up_proj", "weight">>

Without(buffers, layer_key) == [k \in DOMAIN buffers \ {layer_key} |-> buffers[k]]

Stored(buffers, layer_key, component, delta_tensor) ==
    (component :> delta_tensor)
        @@ (IF layer_key \in DOMAIN buffers THEN buffers[layer_key] ELSE <<>>)

\* What becomes of a fused tensor: written, or the exception of the write
WriteFused(buffered, vllm_param_name, fused) ==
    IF fused.exc # "none" THEN Result(fused.exc, buffered, "fusion_failed")
    ELSE LET applied == apply_direct_update(buffered, vllm_param_name, fused.val)
         IN  IF applied.exc = "KeyError" THEN Result("KeyError", buffered, "unresolved_target")
             ELSE IF applied.exc # "none" THEN Result(applied.exc, buffered, "target_mismatch")
             ELSE Result("none", applied.self, "fused")

\* A fusion that concatenates the buffered components with the arriving one last
handle_qkv_update_arrival_order(self, param_name, delta_tensor, config) ==
    LET layer_key == extract_layer_key(param_name)
        stored == Stored(self.qkv_buffers, layer_key, config.component, delta_tensor)
        buffered == [self EXCEPT !.qkv_buffers = (layer_key :> stored) @@ self.qkv_buffers]
        Permuted(c) == IF c = "q" THEN permute_for_rotary(stored[c], config.n_heads)
                       ELSE IF c = "k" THEN permute_for_rotary(stored[c], config.n_kv_heads)
                       ELSE Ok(stored[c])
        order == SelectSeq(<<"q", "k", "v">>, LAMBDA c : c # config.component)
                     \o <<config.component>>
        fused == IF \E i \in 1..3 : Permuted(order[i]).exc # "none"
                 THEN Raise("AssertionError")
                 ELSE Cat([i \in 1..3 |-> Permuted(order[i]).val])
    IN  IF DOMAIN stored = {"q", "k", "v"}
        THEN LET written == WriteFused(buffered, get_vllm_qkv_param_name(layer_key), fused)
             IN  IF written.exc # "none" THEN written
                 ELSE Result("none",
                             [written.self EXCEPT !.qkv_buffers = Without(@, layer_key)],
                             "fused")
        ELSE Result("none", buffered, "buffered")

\* WeightUpdater._handle_qkv_update
handle_qkv_update(self, param_name, delta_tensor, config) ==
    LET layer_key == extract_layer_key(param_name)
        stored == Stored(self.qkv_buffers, layer_key, config.component, delta_tensor)
        buffered == [self EXCEPT !.qkv_buffers = (layer_key :> stored) @@ self.qkv_buffers]
    IN  IF DOMAIN stored = {"q", "k", "v"}
        THEN LET written == WriteFused(buffered, get_vllm_qkv_param_name(layer_key),
                                apply_qkv_fusion(stored["q"], stored["k"], stored["v"],
                                                 config.n_heads, config.n_kv_heads, TRUE))
             IN  IF written.exc # "none" THEN written
                 ELSE Result("none",
                             [written.self EXCEPT !.qkv_buffers = Without(@, layer_key)],
                             "fused")
        ELSE Result("none", buffered, "buffered")

\* WeightUpdater._handle_gate_up_update
handle_gate_up_update(self, param_name, delta_tensor, config) ==
    LET layer_key == extract_layer_key(param_name)
        stored == Stored(self.gate_up_buffers, layer_key, config.component, delta_tensor)
        buffered == [self EXCEPT !.gate_up_buffers = (layer_key :> stored) @@ self.gate_up_buffers]
    IN  IF DOMAIN stored = {"gate", "up"}
        THEN LET written == WriteFused(buffered, get_vllm_gate_up_param_name(layer_key),
                                apply_gate_up_fusion(stored["gate"], stored["up"]))
             IN  IF written.exc # "none" THEN written
                 ELSE Result("none",
                             [written.self EXCEPT !.gate_up_buffers = Without(@, layer_key)],
                             "fused")
        ELSE Result("none", buffered, "buffered")

\* Apply a transformed tensor directly, or pass the transform's exception on
DirectAfter(self, param_name, transformed) ==
    IF transformed.exc # "none" THEN Result(transformed.exc, self, "transform_failed")
    ELSE apply_direct_update(self, param_name, transformed.val)

\* WeightUpdater._apply_transformed_update
apply_transformed_update(self, param_name, delta_tensor) ==
    LET config == transform_config[param_name]
    IN  IF config.type = "qkv_fusion"
        THEN handle_qkv_update(self, param_name, delta_tensor, config)
        ELSE IF config.type = "gate_up_fusion"
        THEN handle_gate_up_update(self, param_name, delta_tensor, config)
        ELSE IF config.type = "rotary_permute"
        THEN DirectAfter(self, param_name, apply_rotary_permute(delta_tensor, config.n_heads))
        ELSE apply_direct_update(self, param_name, delta_tensor)

\* WeightUpdater._apply_transform_by_type
apply_transform_by_type(transform_type, tensor, config) ==
    IF transform_type = "rotary_permute"
    THEN apply_rotary_permute(tensor, config.n_heads)
    ELSE Ok(tensor)

\* WeightUpdater.apply_batch_update: the body of its loop, for one item
apply_batch_item(self, param_name, delta_tensor) ==
    IF param_name \notin DOMAIN self.param_registry
    THEN Result("none", self, "not_found")
    ELSE IF param_name \in DOMAIN transform_config
    THEN apply_transformed_update(self, param_name, delta_tensor)
    ELSE apply_direct_update(self, param_name, delta_tensor)

\* WeightUpdater.apply_single_update, up to its exception handler
apply_single_update(self, update) ==
    IF update.param_name \notin DOMAIN self.param_registry
    THEN Result("none", self, "not_found")
    ELSE DirectAfter(self, update.param_name,
                     IF update.transform # "None"
                     THEN apply_transform_by_type(update.transform, update.delta,
                                                  update.transform_config)
                     ELSE Ok(update.delta))

\* The parameters of a model in the training layout (per projection), and
\* in the inference layout (fused), each with its shape
SplitShapes ==
    LET c == ModelConfig
    IN  [name \in UNION {{LayerParam(l, "self_attn", "q_proj"), LayerParam(l, "self_attn", "k_proj"),
                          LayerParam(l, "self_attn", "v_proj"), LayerParam(l, "mlp", "gate_proj"),
                          LayerParam(l, "mlp", "up_proj")} : l \in 0..(c.n_layers - 1)}
            |-> IF name[5] = "q_proj" THEN <<c.n_heads * c.head_dim, c.hidden_dim>>
                ELSE IF name[5] \in {"k_proj", "v_proj"}
                THEN <<c.n_kv_heads * c.head_dim, c.hidden_dim>>
                ELSE <<c.intermediate_dim, c.hidden_dim>>]

FusedShapes ==
    LET c == ModelConfig
    IN  [name \in UNION {{LayerParam(l, "self_attn", "qkv_proj"),
                          LayerParam(l, "mlp", "gate_up_proj")} : l \in 0..(c.n_layers - 1)}
            |-> IF name[5] = "qkv_proj"
                THEN <<(c.n_heads + 2 * c.n_kv_heads) * c.head_dim, c.hidden_dim>>
                ELSE <<2 * c.intermediate_dim, c.hidden_dim>>]

HeadShapes == (LmHead :> <<1, ModelConfig.hidden_dim>>)

\* model.named_parameters() of a model in one of three layouts
Registry(layout) ==
    LET shapes == CASE layout = "fused" -> FusedShapes @@ HeadShapes
                    [] layout = "split" -> SplitShapes @@ HeadShapes
                    [] OTHER -> SplitShapes @@ FusedShapes @@ HeadShapes
    IN  [name \in DOMAIN shapes |-> Zeros(shapes[name][1], shapes[name][2])]

Layouts == {"fused", "split", "both"}

\* The tensor the trainer sends for a parameter: of the parameter's training
\* shape, its entries distinct so that a permutation shows
Base(name) ==
    IF Len(name) < 5 THEN 1
    ELSE CASE name[5] = "q_proj" -> 1
           [] name[5] = "k_proj" -> 11
           [] name[5] = "v_proj" -> 21
           [] name[5] = "gate_proj" -> 31
           [] OTHER -> 41

Delta(name) ==
    LET shape == (SplitShapes @@ HeadShapes)[name]
    IN  Arange(shape[1], shape[2], Base(name))

\* The same with one column too many
WideDelta(name) ==
    LET shape == (SplitShapes @@ HeadShapes)[name]
    IN  Arange(shape[1], shape[2] + 1, Base(name))

\* The items a batch is made of
UpdateItems ==
    {[name |-> n, tensor |-> Delta(n)] :
        n \in {LayerParam(0, "self_attn", "q_proj"), LayerParam(0, "self_attn", "k_proj"),
               LayerParam(0, "self_attn", "v_proj"), LayerParam(0, "mlp", "gate_proj"),
               LayerParam(0, "mlp", "up_proj"), LayerParam(1, "self_attn", "k_proj"),
               LayerParam(1, "mlp", "up_proj"), LmHead}}
    \cup {[name |-> LayerParam(0, "self_attn", "v_proj"),
           tensor |-> WideDelta(LayerParam(0, "self_attn", "v_proj"))]}

\* The WeightUpdate objects put on the queue
SingleUpdates ==
    {[param_name |-> LmHead, delta |-> Delta(LmHead), transform |-> "None",
      transform_config |-> <<>>],
     [param_name |-> LayerParam(0, "self_attn", "k_proj"),
      delta |-> Delta(LayerParam(0, "self_attn", "k_proj")), transform |-> "rotary_permute",
      transform_config |-> [n_heads |-> ModelConfig.n_kv_heads]]}

Self == [param_registry |-> param_registry, qkv_buffers |-> qkv_buffers,
         gate_up_buffers |-> gate_up_buffers]

\* History: the components delivered to a fusion group since its last fused write
GroupOf(param_name) == <<extract_layer_key(param_name), transform_config[param_name].type>>

Delivered(param_name, delta_tensor, cause) ==
    IF param_name \notin DOMAIN transform_config THEN u_delivered
    ELSE LET g == GroupOf(param_name)
         IN  (g :> (IF cause = "fused" THEN <<>>
                    ELSE Stored(u_delivered, g, transform_config[param_name].component,
                                delta_tensor)))
             @@ u_delivered

\* WeightUpdater.__init__
InitU ==
    /\ u_pc = "run"
    /\ update_mode \in {"delta", "full"}
    /\ \E layout \in Layouts : param_registry = Registry(layout)
    /\ last_good_state = checkpoint_state(param_registry, <<>>)
    /\ qkv_buffers = <<>>
    /\ gate_up_buffers = <<>>
    /\ u_seen = {}
    /\ u_exc = "none"
    /\ u_cause = "none"
    /\ u_effects = param_registry
    /\ u_before = param_registry
    /\ u_delivered = <<>>
    /\ u_items = 0
    /\ IdleT
    /\ IdleS
    /\ IdleC
    /\ IdleW
    /\ IdleD
    /\ IdleB
    /\ IdleF
    /\ IdleP
    /\ IdleE
    /\ IdleQ

\* An error recovery that also drops the buffered fusion groups
OutcomeEvicts(r, checkpoint) ==
    /\ qkv_buffers' = IF r.exc # "none" THEN <<>> ELSE r.self.qkv_buffers
    /\ gate_up_buffers' = IF r.exc # "none" THEN <<>> ELSE r.self.gate_up_buffers
    /\ u_effects' = r.self.param_registry
    /\ u_exc' = r.exc
    /\ u_cause' = r.cause
    /\ IF r.exc # "none"
       THEN /\ param_registry' = restore_last_good_state(r.self.param_registry,
                                                         last_good_state)
            /\ last_good_state' = last_good_state
       ELSE /\ param_registry' = r.self.param_registry
            /\ last_good_state' = IF checkpoint
                                  THEN checkpoint_state(r.self.param_registry, last_good_state)
                                  ELSE last_good_state

\* How a call of apply_batch_update or apply_single_update ends in run():
\* on an exception the method restores and re-raises, and run() restores again
Outcome(r, checkpoint) ==
    /\ qkv_buffers' = r.self.qkv_buffers
    /\ gate_up_buffers' = r.self.gate_up_buffers
    /\ u_effects' = r.self.param_registry
    /\ u_exc' = r.exc
    /\ u_cause' = r.cause
    /\ IF r.exc # "none"
       THEN /\ param_registry' = restore_last_good_state(
                                     restore_last_good_state(r.self.param_registry,
                                                             last_good_state),
                                     last_good_state)
            /\ last_good_state' = last_good_state
       ELSE /\ param_registry' = r.self.param_registry
            /\ last_good_state' = IF checkpoint
                                  THEN checkpoint_state(r.self.param_registry, last_good_state)
                                  ELSE last_good_state

\* run() takes a dict from the queue and apply_batch_update handles its next
\* item; with the last item of a batch that did not raise goes the checkpoint
BatchItem ==
    /\ u_pc \in {"run", "batch"}
    /\ u_items < MaxItems
    /\ \E item \in UpdateItems, last \in BOOLEAN :
          /\ item.name \notin u_seen
          /\ u_items + 1 = MaxItems => last
          /\ LET r == apply_batch_item(Self, item.name, item.tensor)
             IN  /\ Outcome(r, last)
                 /\ u_delivered' = Delivered(item.name, item.tensor, r.cause)
                 /\ u_before' = IF u_pc = "run" THEN param_registry ELSE u_before
                 /\ u_pc' = IF r.exc # "none" \/ last THEN "run" ELSE "batch"
                 /\ u_seen' = IF r.exc # "none" \/ last THEN {} ELSE u_seen \cup {item.name}
    /\ u_items' = u_items + 1
    /\ UNCHANGED <<update_mode, others_u>>

\* run() takes an empty dict from the queue
EmptyBatch ==
    /\ u_pc = "run"
    /\ u_items < MaxItems
    /\ Outcome(Result("none", Self, "checkpoint"), TRUE)
    /\ u_items' = u_items + 1
    /\ UNCHANGED <<u_pc, update_mode, u_seen, u_before, u_delivered, others_u>>

\* run() takes "CHECKPOINT" from the queue
Checkpoint ==
    /\ u_pc = "run"
    /\ u_items < MaxItems
    /\ Outcome(Result(u_exc, Self, "checkpoint"), TRUE)
    /\ u_items' = u_items + 1
    /\ UNCHANGED <<u_pc, update_mode, u_seen, u_before, u_delivered, others_u>>

\* run() takes a WeightUpdate from the queue
SingleUpdate ==
    /\ u_pc = "run"
    /\ u_items < MaxItems
    /\ \E update \in SingleUpdates : Outcome(apply_single_update(Self, update), FALSE)
    /\ u_items' = u_items + 1
    /\ UNCHANGED <<u_pc, update_mode, u_seen, u_before, u_delivered, others_u>>

\* run() takes anything else from the queue
UnknownUpdate ==
    /\ u_pc = "run"
    /\ u_items < MaxItems
    /\ u_items' = u_items + 1
    /\ UNCHANGED <<u_pc, update_mode, param_registry, last_good_state, qkv_buffers,
                   gate_up_buffers, u_seen, u_exc, u_cause, u_effects, u_before, u_delivered,
                   others_u>>

\* run() takes "SHUTDOWN" from the queue
Shutdown ==
    /\ u_pc = "run"
    /\ u_pc' = "stopped"
    /\ UNCHANGED <<update_mode, param_registry, last_good_state, qkv_buffers,
                   gate_up_buffers, u_seen, u_exc, u_cause, u_effects, u_before, u_delivered,
                   u_items, others_u>>

NextU ==
    \/ BatchItem
    \/ EmptyBatch
    \/ Checkpoint
    \/ SingleUpdate
    \/ UnknownUpdate
    \/ Shutdown

SpecU == InitU /\ [][NextU]_vars

(***************************************************************************)
(* vllm/weight_updater.py: PsycheWeightUpdater.  A parameter name is the   *)
(* sequence of its dot-separated parts; all tensors have one dtype, so     *)
(* weight_tensor.to(target_tensor.dtype) is not called.                    *)
(***************************************************************************)
\* ".wq." in param_name: the part stands between two dots
Infix(param_name, part) == \E i \in 2..(Len(param_name) - 1) : param_name[i] = part

\* "qkv_proj" in name, for names whose parts are whole words
Contains(name, part) == \E i \in 1..Len(name) : name[i] = part

\* param_name in self.state_dict
Has(sd, param_name) == \E i \in 1..Len(sd) : sd[i].name = param_name

IndexOf(sd, param_name) == CHOOSE i \in 1..Len(sd) : sd[i].name = param_name

\* for name in self.state_dict.keys(): if part in name: fused_name = name; break
\* (<<>> is None)
FirstWith(sd, part) ==
    IF \A i \in 1..Len(sd) : ~Contains(sd[i].name, part) THEN <<>>
    ELSE sd[CHOOSE i \in 1..Len(sd) :
                /\ Contains(sd[i].name, part)
                /\ \A j \in 1..(i - 1) : ~Contains(sd[j].name, part)].name

\* self.state_dict[name].data.copy_(src): src must broadcast to the target
CopyInto(sd, name, src) ==
    LET i == IndexOf(sd, name)
    IN  IF Broadcastable(sd[i].tensor, src)
        THEN [exc |-> "none", sd |-> [sd EXCEPT ![i].tensor = Expand(sd[i].tensor, src)]]
        ELSE [exc |-> "RuntimeError", sd |-> sd]

\* PsycheWeightUpdater._permute_for_rotary on a 2-D weight
updater_permute_for_rotary(weight, n_heads) ==
    LET dim1 == Rows(weight)
        dim2 == Cols(weight)
    IN  IF n_heads = 0 THEN Raise("ZeroDivisionError")
        \* weight.view(n_heads, dim1 // n_heads // 2, 2, dim2)
        ELSE IF n_heads * ((dim1 \div n_heads) \div 2) * 2 * dim2 # dim1 * dim2
        THEN Raise("RuntimeError")
        ELSE Ok(Unflatten(TransposePairs(Flatten(weight), n_heads,
                                         (dim1 \div n_heads) \div 2, dim2), dim1, dim2))

\* PsycheWeightUpdater._apply_permutation
apply_permutation(self, weight) ==
    IF self.model_config.none THEN Ok(weight)
    ELSE updater_permute_for_rotary(weight, self.model_config.num_attention_heads)

\* What a call leaves of the object, and the exception it raised
Left(exc, self) == [exc |-> exc, self |-> self]

\* PsycheWeightUpdater._handle_qkv_fusion
handle_qkv_fusion(self, param_name, weight_tensor, needs_permute) ==
    IF ~(Infix(param_name, "wq") \/ Infix(param_name, "wk") \/ Infix(param_name, "wv"))
    THEN Left("none", self)
    ELSE
    LET key == IF Infix(param_name, "wq") THEN "q"
               ELSE IF Infix(param_name, "wk") THEN "k" ELSE "v"
        permuted ==
            IF needs_permute /\ ~self.model_config.none /\ key = "q"
            THEN updater_permute_for_rotary(weight_tensor, self.model_config.num_attention_heads)
            ELSE IF needs_permute /\ ~self.model_config.none /\ key = "k"
            THEN updater_permute_for_rotary(weight_tensor, self.model_config.num_key_value_heads)
            ELSE Ok(weight_tensor)
    IN  IF permuted.exc # "none" THEN Left(permuted.exc, self)
        ELSE
        LET buffer == (key :> permuted.val) @@ self.qkv_buffer
            stored == [self EXCEPT !.qkv_buffer = buffer]
        IN  IF Cardinality(DOMAIN buffer) # 3 THEN Left("none", stored)
            ELSE
            LET fused == Cat(<<buffer["q"], buffer["k"], buffer["v"]>>)
                fused_name == FirstWith(self.state_dict, "qkv_proj")
            IN  IF fused.exc # "none" THEN Left(fused.exc, stored)
                ELSE IF fused_name = <<>>
                THEN Left("none", [stored EXCEPT !.qkv_buffer = <<>>])
                ELSE LET copied == CopyInto(self.state_dict, fused_name, fused.val)
                     IN  IF copied.exc # "none" THEN Left(copied.exc, stored)
                         ELSE Left("none", [stored EXCEPT !.state_dict = copied.sd,
                                                          !.qkv_buffer = <<>>])

\* PsycheWeightUpdater._handle_gate_up_fusion
handle_gate_up_fusion(self, param_name, weight_tensor) ==
    IF ~(Infix(param_name, "w1") \/ Infix(param_name, "w3"))
    THEN Left("none", self)
    ELSE
    LET key == IF Infix(param_name, "w1") THEN "w1" ELSE "w3"
        buffer == (key :> weight_tensor) @@ self.gate_up_buffer
        stored == [self EXCEPT !.gate_up_buffer = buffer]
    IN  IF Cardinality(DOMAIN buffer) # 2 THEN Left("none", stored)
        ELSE
        LET fused == Cat(<<buffer["w1"], buffer["w3"]>>)
            fused_name == FirstWith(self.state_dict, "gate_up_proj")
        IN  IF fused.exc # "none" THEN Left(fused.exc, stored)
            ELSE IF fused_name = <<>>
            THEN Left("none", [stored EXCEPT !.gate_up_buffer = <<>>])
            ELSE LET copied == CopyInto(self.state_dict, fused_name, fused.val)
                 IN  IF copied.exc # "none" THEN Left(copied.exc, stored)
                     ELSE Left("none", [stored EXCEPT !.state_dict = copied.sd,
                                                      !.gate_up_buffer = <<>>])

\* PsycheWeightUpdater.apply_weight_update
apply_weight_update(self, param_name, weight_tensor, needs_permute, transform_type) ==
    IF ~Has(self.state_dict, param_name) THEN Left("none", self)
    ELSE IF transform_type = "qkv"
    THEN handle_qkv_fusion(self, param_name, weight_tensor, needs_permute)
    ELSE IF transform_type = "gate_up"
    THEN handle_gate_up_fusion(self, param_name, weight_tensor)
    ELSE LET permuted == IF needs_permute THEN apply_permutation(self, weight_tensor)
                         ELSE Ok(weight_tensor)
         IN  IF permuted.exc # "none" THEN Left(permuted.exc, self)
             ELSE LET copied == CopyInto(self.state_dict, param_name, permuted.val)
                  IN  Left(copied.exc, [self EXCEPT !.state_dict = copied.sd])

(***************************************************************************)
(* Specification of PsycheWeightUpdater: a state_dict of two layers that   *)
(* holds the training names and vLLM's fused names, and a caller that      *)
(* sends the weights of the layers in any order.                           *)
(***************************************************************************)
Layers == {0, 1}

TrainParam(layer, block, proj) == <<"layers", ToString(layer), block, proj, "weight">>

Projections ==
    <<[block |-> "attention", proj |-> "wq", rows |-> 4],
      [block |-> "attention", proj |-> "wk", rows |-> 4],
      [block |-> "attention", proj |-> "wv", rows |-> 2],
      [block |-> "attention", proj |-> "wo", rows |-> 2],
      [block |-> "attention", proj |-> "qkv_proj", rows |-> 10],
      [block |-> "feed_forward", proj |-> "w1", rows |-> 2],
      [block |-> "feed_forward", proj |-> "w3", rows |-> 2],
      [block |-> "feed_forward", proj |-> "gate_up_proj", rows |-> 4]>>

\* The entries of one layer, all zero
LayerEntries(layer, fused) ==
    LET all == [i \in 1..Len(Projections) |->
                   [name |-> TrainParam(layer, Projections[i].block, Projections[i].proj),
                    tensor |-> Zeros(Projections[i].rows, 1)]]
    IN  IF fused THEN all
        ELSE SelectSeq(all, LAMBDA e : ~Contains(e.name, "qkv_proj")
                                       /\ ~Contains(e.name, "gate_up_proj"))

StateDicts ==
    {LayerEntries(0, TRUE) \o LayerEntries(1, TRUE),
     LayerEntries(1, TRUE) \o LayerEntries(0, TRUE),
     LayerEntries(0, FALSE) \o LayerEntries(1, FALSE)}

\* The layer a weight entry was sent for: entries of layer l are in
\* (l + 1) * 100 .. (l + 1) * 100 + 99, and no two sent weights share one
SentFor(entry) == entry \div 100 - 1

Weight(layer, proj) ==
    LET i == CHOOSE k \in 1..Len(Projections) : Projections[k].proj = proj
    IN  [r \in 1..Projections[i].rows |-> <<(layer + 1) * 100 + 10 * i + r>>]

\* (param_name, weight_tensor) of the calls: the projections of layer 0, two
\* of layer 1, a weight one row short, and a name the state_dict lacks
WeightUpdates ==
    {<<TrainParam(0, Projections[i].block, Projections[i].proj), Weight(0, Projections[i].proj)>> :
        i \in {1, 2, 3, 4, 6, 7}}
    \cup {<<TrainParam(1, "attention", "wk"), Weight(1, "wk")>>,
          <<TrainParam(1, "feed_forward", "w3"), Weight(1, "w3")>>,
          <<TrainParam(1, "feed_forward", "w1"), SubSeq(Weight(1, "w1"), 1, 1)>>,
          <<<<"lm_head", "weight">>, Weight(0, "wo")>>}

\* self.model_config is None
NoConfig == [none |-> TRUE, num_attention_heads |-> 0, num_key_value_heads |-> 0]

ModelConfigs == {NoConfig, [none |-> FALSE, num_attention_heads |-> 1, num_key_value_heads |-> 1]}

InitW ==
    /\ w_pc = "ready"
    /\ w_state_dict \in StateDicts
    /\ w_model_config \in ModelConfigs
    /\ qkv_buffer = <<>>
    /\ gate_up_buffer = <<>>
    /\ w_exc = "none"
    /\ w_calls = 0
    /\ IdleT
    /\ IdleS
    /\ IdleC
    /\ IdleU
    /\ IdleD
    /\ IdleB
    /\ IdleF
    /\ IdleP
    /\ IdleE
    /\ IdleQ

SelfW ==
    [state_dict |-> w_state_dict, model_config |-> w_model_config,
     qkv_buffer |-> qkv_buffer, gate_up_buffer |-> gate_up_buffer]

\* One call of apply_weight_update
ApplyWeightUpdate ==
    /\ w_pc = "ready"
    /\ w_calls < MaxUpdates
    /\ \E update \in WeightUpdates, needs_permute \in BOOLEAN,
          transform_type \in {"qkv", "gate_up", "None"} :
          LET left == apply_weight_update(SelfW, update[1], update[2],
                                          needs_permute, transform_type)
          IN  /\ w_state_dict' = left.self.state_dict
              /\ qkv_buffer' = left.self.qkv_buffer
              /\ gate_up_buffer' = left.self.gate_up_buffer
              /\ w_exc' = left.exc
    /\ w_calls' = w_calls + 1
    /\ UNCHANGED <<w_pc, w_model_config, others_w>>

NextW == ApplyWeightUpdate

SpecW == InitW /\ [][NextW]_vars

(***************************************************************************)
(* sidecar/__main__.py: receive_distro_results.  A tensor is a record      *)
(* [shape, dtype, data] with its entries in row-major order.               *)
(***************************************************************************)
DTYPE_MAPPING ==
    (0 :> "uint8") @@ (3 :> "int") @@ (4 :> "int64") @@ (5 :> "half") @@ (6 :> "float")
    @@ (7 :> "double") @@ (11 :> "bool") @@ (15 :> "bfloat16")

\* (results_len,) + tuple(size)
BufferShape(results_len, size) == <<results_len>> \o size

\* tensor.chunk(chunks, dim=0): pieces of ceil(shape[0] / chunks) rows
Chunk(tensor, chunks) ==
    IF chunks <= 0 THEN Raise("RuntimeError")
    ELSE LET dim0 == tensor.shape[1]
             rest == Tail(tensor.shape)
             rows == (dim0 + chunks - 1) \div chunks
             pieces == IF rows = 0 THEN 0 ELSE (dim0 + rows - 1) \div rows
             Piece(i) ==
                 LET from == (i - 1) * rows
                     upto == IF i * rows < dim0 THEN i * rows ELSE dim0
                 IN  [shape |-> <<upto - from>> \o rest, dtype |-> tensor.dtype,
                      data |-> SubSeq(tensor.data, from * Product(rest) + 1,
                                      upto * Product(rest))]
         IN  Ok([i \in 1..pieces |-> Piece(i)])

\* A squeeze that squeezes nothing
NoSqueeze(tensor) == tensor

\* tensor.squeeze(dim=0): dimension 0 is removed if its size is 1
Squeeze(tensor) ==
    IF tensor.shape # <<>> /\ tensor.shape[1] = 1
    THEN [tensor EXCEPT !.shape = Tail(tensor.shape)]
    ELSE tensor

DistroResult(sparse_idx, sparse_val, xshape, totalk) ==
    [sparse_idx |-> sparse_idx, sparse_val |-> sparse_val, xshape |-> xshape,
     totalk |-> totalk]

\* The loops over result_index and param_index (indices from 1)
Results(results_len, metadata, sparse_idxs, sparse_vals) ==
    [result_index \in 1..results_len |->
        [param_index \in 1..Len(metadata.sparse_idx_size) |->
            DistroResult(Squeeze(sparse_idxs[param_index][result_index]),
                         Squeeze(sparse_vals[param_index][result_index]),
                         metadata.xshape[param_index],
                         metadata.totalk[param_index])]]

\* A faulty check: only the first of the assertions
AssertedFirstOnly(metadata) ==
    Len(metadata.sparse_idx_size) = Len(metadata.sparse_val_size)

\* The three assertions at the top
Asserted(metadata) ==
    /\ Len(metadata.sparse_idx_size) = Len(metadata.sparse_val_size)
    /\ Len(metadata.sparse_val_size) = Len(metadata.xshape)
    /\ Len(metadata.xshape) = Len(metadata.totalk)

\* A faulty loop body: the value tensor is received first.
LoopBodyValFirst == [first |-> "val", val |-> "idx", idx |-> "append"]

\* The order of the loop body: where it starts after the buffers are
\* allocated, and what follows each broadcast
LoopBody == [first |-> "idx", idx |-> "val", val |-> "append"]

(***************************************************************************)
(* Specification of receive_distro_results: one call, as main() makes it   *)
(* (results_len > 0), with rank 0 filling each buffer.                     *)
(***************************************************************************)
\* The metadata of one parameter
ParamEntries ==
    {[sparse_idx_size |-> <<2>>, sparse_val_size |-> <<2>>, xshape |-> <<4, 4>>, totalk |-> 16],
     [sparse_idx_size |-> <<1, 2>>, sparse_val_size |-> <<1>>, xshape |-> <<8>>, totalk |-> 8],
     [sparse_idx_size |-> <<>>, sparse_val_size |-> <<0>>, xshape |-> <<2>>, totalk |-> 2]}

ParamLists == UNION {[1..n -> ParamEntries] : n \in 0..MaxParams}

MetadataOf(params, idx_dtype, val_dtype) ==
    [sparse_idx_size |-> [p \in 1..Len(params) |-> params[p].sparse_idx_size],
     sparse_idx_dtype |-> idx_dtype,
     sparse_val_size |-> [p \in 1..Len(params) |-> params[p].sparse_val_size],
     sparse_val_dtype |-> val_dtype,
     xshape |-> [p \in 1..Len(params) |-> params[p].xshape],
     totalk |-> [p \in 1..Len(params) |-> params[p].totalk]]

\* DistroResultsMetadata(**results_metadata): the lists of the parameters,
\* also with a dtype code that DTYPE_MAPPING lacks and with one of the four
\* lists an entry short
Metadatas ==
    {MetadataOf(params, idx_dtype, val_dtype) :
        params \in ParamLists, idx_dtype \in {4, 2}, val_dtype \in {6, 11}}
    \cup {[MetadataOf(params, 4, 6) EXCEPT !.totalk = Tail(@)] :
            params \in ParamLists \ {<<>>}}
    \cup {[MetadataOf(params, 4, 6) EXCEPT !.xshape = Tail(@)] :
            params \in ParamLists \ {<<>>}}
    \cup {[MetadataOf(params, 4, 6) EXCEPT !.sparse_val_size = Tail(@)] :
            params \in ParamLists \ {<<>>}}
    \cup {[MetadataOf(params, 4, 6) EXCEPT !.sparse_idx_size = Tail(@)] :
            params \in ParamLists \ {<<>>}}

NoMetadata == MetadataOf(<<>>, 0, 0)

\* What rank 0 broadcasts into a buffer: entries that are all distinct
Sent(shape, dtype, base) ==
    [shape |-> shape, dtype |-> dtype, data |-> [k \in 1..Product(shape) |-> base + k]]

NoTensor == [shape |-> <<>>, dtype |-> "none", data |-> <<>>]

InitD ==
    /\ d_pc = "ready"
    /\ d_results_len = 0
    /\ d_metadata = NoMetadata
    /\ d_param_index = 0
    /\ d_sparse_idx = NoTensor
    /\ d_sparse_val = NoTensor
    /\ d_sparse_idxs = <<>>
    /\ d_sparse_vals = <<>>
    /\ d_joined = <<>>
    /\ d_results = <<>>
    /\ d_exc = "none"
    /\ IdleT
    /\ IdleS
    /\ IdleC
    /\ IdleU
    /\ IdleW
    /\ IdleB
    /\ IdleF
    /\ IdleP
    /\ IdleE
    /\ IdleQ

\* The call and its assertions.  main() calls the function outside any try
\* block (lines 256 and 298): an exception of the call ends main() with it.
CallReceive ==
    /\ d_pc = "ready"
    /\ \E results_len \in 1..MaxResults, metadata \in Metadatas :
          /\ d_results_len' = results_len
          /\ d_metadata' = metadata
          /\ d_pc' = IF Asserted(metadata) THEN "loop" ELSE "raised"
          /\ d_exc' = IF Asserted(metadata) THEN "none" ELSE "AssertionError"
    /\ UNCHANGED <<d_param_index, d_sparse_idx, d_sparse_val, d_sparse_idxs, d_sparse_vals,
                   d_joined, d_results, others_d>>

\* for param_index in range(params_len): the two torch.empty(...) calls
Allocate ==
    /\ d_pc = "loop"
    /\ d_param_index < Len(d_metadata.sparse_idx_size)
    /\ IF d_metadata.sparse_idx_dtype \in DOMAIN DTYPE_MAPPING
          /\ d_metadata.sparse_val_dtype \in DOMAIN DTYPE_MAPPING
       THEN d_pc' = LoopBody.first /\ d_exc' = d_exc
       ELSE d_pc' = "raised" /\ d_exc' = "KeyError"
    /\ UNCHANGED <<d_results_len, d_metadata, d_param_index, d_sparse_idx, d_sparse_val,
                   d_sparse_idxs, d_sparse_vals, d_joined, d_results, others_d>>

Joined(kind, tensor) ==
    d_joined \o <<[kind |-> kind, param_index |-> d_param_index, tensor |-> tensor]>>

\* dist.broadcast(sparse_idx, 0)
BroadcastIdx ==
    /\ d_pc = "idx"
    /\ \E base \in 0..MaxBase :
          LET tensor == Sent(BufferShape(d_results_len,
                                         d_metadata.sparse_idx_size[d_param_index + 1]),
                             DTYPE_MAPPING[d_metadata.sparse_idx_dtype], base)
          IN  /\ d_sparse_idx' = tensor
              /\ d_joined' = Joined("idx", tensor)
    /\ d_pc' = LoopBody.idx
    /\ UNCHANGED <<d_results_len, d_metadata, d_param_index, d_sparse_val, d_sparse_idxs,
                   d_sparse_vals, d_results, d_exc, others_d>>

\* dist.broadcast(sparse_val, 0)
BroadcastVal ==
    /\ d_pc = "val"
    /\ \E base \in 0..MaxBase :
          LET tensor == Sent(BufferShape(d_results_len,
                                         d_metadata.sparse_val_size[d_param_index + 1]),
                             DTYPE_MAPPING[d_metadata.sparse_val_dtype], 10 + base)
          IN  /\ d_sparse_val' = tensor
              /\ d_joined' = Joined("val", tensor)
    /\ d_pc' = LoopBody.val
    /\ UNCHANGED <<d_results_len, d_metadata, d_param_index, d_sparse_idx, d_sparse_idxs,
                   d_sparse_vals, d_results, d_exc, others_d>>

\* sparse_idxs.append(sparse_idx.chunk(results_len, dim=0)), likewise
\* sparse_vals, and on to the next param_index
AppendChunks ==
    /\ d_pc = "append"
    /\ LET idxs == Chunk(d_sparse_idx, d_results_len)
           vals == Chunk(d_sparse_val, d_results_len)
       IN  IF idxs.exc # "none"
           THEN /\ d_pc' = "raised"
                /\ d_exc' = idxs.exc
                /\ UNCHANGED <<d_sparse_idxs, d_sparse_vals, d_param_index>>
           ELSE /\ d_sparse_idxs' = Append(d_sparse_idxs, idxs.val)
                /\ d_sparse_vals' = Append(d_sparse_vals, vals.val)
                /\ d_param_index' = d_param_index + 1
                /\ d_pc' = "loop"
                /\ d_exc' = d_exc
    /\ UNCHANGED <<d_results_len, d_metadata, d_sparse_idx, d_sparse_val, d_joined,
                   d_results, others_d>>

\* The first loop is over: results is built and returned
ReturnResults ==
    /\ d_pc = "loop"
    /\ d_param_index = Len(d_metadata.sparse_idx_size)
    /\ d_results' = Results(d_results_len, d_metadata, d_sparse_idxs, d_sparse_vals)
    /\ d_pc' = "returned"
    /\ UNCHANGED <<d_results_len, d_metadata, d_param_index, d_sparse_idx, d_sparse_val,
                   d_sparse_idxs, d_sparse_vals, d_joined, d_exc, others_d>>

NextD ==
    \/ CallReceive
    \/ Allocate
    \/ BroadcastIdx
    \/ BroadcastVal
    \/ AppendChunks
    \/ ReturnResults

SpecD == InitD /\ [][NextD]_vars

(***************************************************************************)
(* sidecar/__main__.py: the train and forward branches of main() in        *)
(* detail, with receive_batch, for the workers of one process group.       *)
(* Rank 0 is the coordinator: it sends every broadcast and joins the       *)
(* all-reduce.  trainer.train and model.forward are calls into the         *)
(* extension module; train returns a loss.                                 *)
(***************************************************************************)
BatchWorkers == {1, 2}

\* A faulty order: labels are received whether or not the batch has them.
AfterBroadcastAlwaysLabels(op, tensor) ==
    IF tensor = "input_ids" THEN "labels"
    ELSE IF tensor = "labels" /\ op.batch_has_position_ids THEN "position_ids"
    ELSE "execute"

\* receive_batch: what follows the broadcast of a tensor
AfterBroadcast(op, tensor) ==
    IF tensor = "input_ids" /\ op.batch_has_labels THEN "labels"
    ELSE IF tensor \in {"input_ids", "labels"} /\ op.batch_has_position_ids
    THEN "position_ids"
    ELSE "execute"

\* The train and forward descriptors without sparse results
BatchDescriptors ==
    [operation : {"train", "forward"}, batch_shape : {<<2, 4>>}, results_len : {0},
     batch_has_labels : BOOLEAN, batch_has_position_ids : BOOLEAN]

\* The workers have fetched the descriptor of iteration 0 and passed the barrier
InitB ==
    /\ b_operation \in BatchDescriptors
    /\ b_pc = [w \in BatchWorkers |-> "dispatch"]
    /\ b_joined = [w \in BatchWorkers |-> <<>>]
    /\ b_calls = [w \in BatchWorkers |-> <<>>]
    /\ b_loss \in [{0} -> 0..MaxLoss]
    /\ \E t \in {"None", "Trainer"} : b_trainer = [w \in BatchWorkers |-> t]
    /\ b_iteration = [w \in BatchWorkers |-> 0]
    /\ b_error = [w \in BatchWorkers |-> "none"]
    /\ IdleT
    /\ IdleS
    /\ IdleC
    /\ IdleU
    /\ IdleW
    /\ IdleD
    /\ IdleF
    /\ IdleP
    /\ IdleE
    /\ IdleQ

\* elif operation["operation"] == "train": the trainer check, then
\* receive_batch allocates its buffers; forward has no check
EnterBranch(w) ==
    /\ b_pc[w] = "dispatch"
    /\ IF b_operation.operation = "train" /\ b_trainer[w] = "None"
       THEN /\ b_pc' = [b_pc EXCEPT ![w] = "raised"]
            /\ b_error' = [b_error EXCEPT ![w] = "RuntimeError"]
       ELSE /\ b_pc' = [b_pc EXCEPT ![w] = "input_ids"]
            /\ b_error' = b_error
    /\ UNCHANGED <<b_operation, b_joined, b_calls, b_loss, b_trainer, b_iteration, others_b>>

\* dist.broadcast(input_ids, 0), dist.broadcast(labels, 0),
\* dist.broadcast(position_ids, 0)
JoinBroadcast(w) ==
    /\ b_pc[w] \in {"input_ids", "labels", "position_ids"}
    /\ b_joined' = [b_joined EXCEPT ![w] =
                       Append(@, [tensor |-> b_pc[w], shape |-> b_operation.batch_shape,
                                  src |-> 0])]
    /\ b_pc' = [b_pc EXCEPT ![w] = AfterBroadcast(b_operation, b_pc[w])]
    /\ UNCHANGED <<b_operation, b_calls, b_loss, b_trainer, b_iteration, b_error, others_b>>

\* A faulty step: a forward operation goes on to the all-reduce as well.
ExecuteStepThenReduce(w) ==
    /\ b_pc[w] = "execute"
    /\ b_calls' = [b_calls EXCEPT ![w] =
                      Append(@, IF b_operation.operation = "train" THEN "trainer.train"
                                ELSE "model.forward")]
    /\ \E loss \in 0..MaxLoss : b_loss' = (w :> loss) @@ b_loss
    /\ b_pc' = [b_pc EXCEPT ![w] = "all_reduce"]
    /\ UNCHANGED <<b_operation, b_joined, b_trainer, b_iteration, b_error, others_b>>

\* trainer.train(...) and loss = torch.Tensor([loss]), or model.forward(...)
\* and iteration += 1
ExecuteStep(w) ==
    /\ b_pc[w] = "execute"
    /\ IF b_operation.operation = "train"
       THEN /\ b_calls' = [b_calls EXCEPT ![w] = Append(@, "trainer.train")]
            /\ \E loss \in 0..MaxLoss : b_loss' = (w :> loss) @@ b_loss
            /\ b_pc' = [b_pc EXCEPT ![w] = "all_reduce"]
            /\ b_iteration' = b_iteration
       ELSE /\ b_calls' = [b_calls EXCEPT ![w] = Append(@, "model.forward")]
            /\ b_loss' = b_loss
            /\ b_pc' = [b_pc EXCEPT ![w] = "next"]
            /\ b_iteration' = [b_iteration EXCEPT ![w] = NextIteration(@)]
    /\ UNCHANGED <<b_operation, b_joined, b_trainer, b_error, others_b>>

\* dist.all_reduce(loss): the worker enters the collective ...
AllReduceEnter(w) ==
    /\ b_pc[w] = "all_reduce"
    /\ b_calls' = [b_calls EXCEPT ![w] = Append(@, "all_reduce")]
    /\ b_pc' = [b_pc EXCEPT ![w] = "in_all_reduce"]
    /\ UNCHANGED <<b_operation, b_joined, b_loss, b_trainer, b_iteration, b_error, others_b>>

RECURSIVE SumOver(_, _)
SumOver(f, S) ==
    IF S = {} THEN 0 ELSE LET x == CHOOSE y \in S : TRUE IN f[x] + SumOver(f, S \ {x})

\* ... and once every rank has entered, each holds the sum (the default
\* op); then iteration += 1
AllReduce ==
    /\ \A w \in BatchWorkers : b_pc[w] = "in_all_reduce"
    /\ b_loss' = [r \in DOMAIN b_loss |-> SumOver(b_loss, DOMAIN b_loss)]
    /\ b_pc' = [w \in BatchWorkers |-> "next"]
    /\ b_iteration' = [w \in BatchWorkers |-> NextIteration(b_iteration[w])]
    /\ UNCHANGED <<b_operation, b_joined, b_calls, b_trainer, b_error, others_b>>

NextB ==
    \/ AllReduce
    \/ \E w \in BatchWorkers : EnterBranch(w)
    \/ \E w \in BatchWorkers : JoinBroadcast(w)
    \/ \E w \in BatchWorkers : ExecuteStep(w)
    \/ \E w \in BatchWorkers : AllReduceEnter(w)

SpecB == InitB /\ [][NextB]_vars

(***************************************************************************)
(* transforms.py: apply_qkv_fusion and apply_gate_up_fusion, each called   *)
(* once on drawn arguments                                                 *)
(***************************************************************************)
\* n_kv_heads: Optional[int]; <<>> is None, <<h>> the integer h
KvHeads(n_heads, n_kv_heads) == IF n_kv_heads = <<>> THEN n_heads ELSE n_kv_heads[1]

\* The arguments of one call of each function: q of n_heads * hd rows, k and
\* v of n_kv_heads * hd rows, all of d columns; gate and up of any row
\* counts, up of its own column count; n_layers of the model configuration
FusionArgs ==
    {[q_weight |-> Arange(n * hd, d, 1),
      k_weight |-> Arange(KvHeads(n, kv) * hd, d, 101),
      v_weight |-> Arange(KvHeads(n, kv) * hd, d, 201),
      n_heads |-> n, n_kv_heads |-> kv, apply_rotary |-> rotary,
      gate_weight |-> Arange(g, d, 1), up_weight |-> Arange(u, du, 51),
      n_layers |-> layers] :
        layers \in 0..MaxLayers,
        n \in 1..MaxHeads, kv \in {<<>>} \cup {<<h>> : h \in 1..MaxHeads},
        hd \in 1..MaxHeadDim, d \in 1..MaxInDim, rotary \in BOOLEAN,
        g \in 1..MaxInDim, u \in 1..MaxInDim, du \in 1..MaxInDim}

InitF ==
    /\ f_pc = "input"
    /\ f_args \in FusionArgs
    /\ f_fused = Raise("unset")
    /\ IdleT
    /\ IdleS
    /\ IdleC
    /\ IdleU
    /\ IdleW
    /\ IdleD
    /\ IdleB
    /\ IdleP
    /\ IdleE
    /\ IdleQ

\* apply_qkv_fusion(q_weight, k_weight, v_weight, n_heads, n_kv_heads, apply_rotary)
CallQkvFusion ==
    /\ f_pc = "input"
    /\ f_fused' = apply_qkv_fusion(f_args.q_weight, f_args.k_weight, f_args.v_weight,
                                   f_args.n_heads,
                                   KvHeads(f_args.n_heads, f_args.n_kv_heads),
                                   f_args.apply_rotary)
    /\ f_pc' = IF f_fused'.exc = "none" THEN "qkv" ELSE "qkv_raised"
    /\ UNCHANGED <<f_args, others_f>>

\* apply_gate_up_fusion(gate_weight, up_weight)
CallGateUpFusion ==
    /\ f_pc = "input"
    /\ f_fused' = apply_gate_up_fusion(f_args.gate_weight, f_args.up_weight)
    /\ f_pc' = IF f_fused'.exc = "none" THEN "gate_up" ELSE "gate_up_raised"
    /\ UNCHANGED <<f_args, others_f>>

\* build_full_transform_config_llama(model_config)
CallBuildConfig ==
    /\ f_pc = "input"
    /\ f_fused' = Ok(build_full_transform_config_llama(
                         [n_layers |-> f_args.n_layers, n_heads |-> f_args.n_heads,
                          n_kv_heads |-> KvHeads(f_args.n_heads, f_args.n_kv_heads)]))
    /\ f_pc' = "config"
    /\ UNCHANGED <<f_args, others_f>>

NextF == CallQkvFusion \/ CallGateUpFusion \/ CallBuildConfig

SpecF == InitF /\ [][NextF]_vars

(***************************************************************************)
(* vllm_patch.py: PsychePatchedGPUModelRunner.load_model, the updater      *)
(* process it spawns (distributed_updater.weight_updater_process), and     *)
(* PsychePatchedWorker.update_psyche_weights, which the engine calls in    *)
(* the worker process through collective_rpc                               *)
(***************************************************************************)
\* The names of the model's state_dict
PatchParams == {"w1", "w2"}

\* What exists of the registry at some moment
Built == [model |-> p_model, state_dict |-> p_state_dict, shared |-> p_shared,
          attr |-> p_attr, registered |-> 0 \in DOMAIN p_registry]

InitP ==
    /\ p_pc = "load"
    /\ p_env \in BOOLEAN
    /\ p_model = "unloaded"
    /\ p_state_dict = {}
    /\ p_shared = {}
    /\ p_attr = FALSE
    /\ p_registry = <<>>
    /\ p_updater = "none"
    /\ p_started_with = [model |-> "unloaded", state_dict |-> {}, shared |-> {},
                         attr |-> FALSE, registered |-> FALSE]
    /\ p_tensor = [n \in PatchParams |-> "unloaded"]
    /\ p_receiver = "none"
    /\ p_worker = "none"
    /\ IdleT
    /\ IdleS
    /\ IdleC
    /\ IdleU
    /\ IdleW
    /\ IdleD
    /\ IdleB
    /\ IdleF
    /\ IdleE
    /\ IdleQ

\* super().load_model(eep_scale_up): outside the try block
LoadModel ==
    /\ p_pc = "load"
    /\ \E ok \in BOOLEAN :
          IF ok
          THEN /\ p_model' = "loaded"
               /\ p_tensor' = [n \in PatchParams |-> "loaded"]
               /\ p_pc' = "share_model"
          ELSE /\ p_pc' = "raised"
               /\ UNCHANGED <<p_model, p_tensor>>
    /\ UNCHANGED <<p_env, p_state_dict, p_shared, p_attr, p_registry, p_updater,
                   p_started_with, p_receiver, p_worker, others_p>>

\* self.model.share_memory()
ShareModel ==
    /\ p_pc = "share_model"
    /\ p_shared' = PatchParams
    /\ p_pc' = "state_dict"
    /\ UNCHANGED <<p_env, p_model, p_state_dict, p_attr, p_registry, p_updater,
                   p_started_with, p_tensor, p_receiver, p_worker, others_p>>

\* state_dict = self.model.state_dict()
StateDict ==
    /\ p_pc = "state_dict"
    /\ p_state_dict' = PatchParams
    /\ p_pc' = "share_tensors"
    /\ UNCHANGED <<p_env, p_model, p_shared, p_attr, p_registry, p_updater,
                   p_started_with, p_tensor, p_receiver, p_worker, others_p>>

\* for key, val in state_dict.items(): val.share_memory_()
ShareTensors ==
    /\ p_pc = "share_tensors"
    /\ p_shared' = p_shared \cup p_state_dict
    /\ p_pc' = "store"
    /\ UNCHANGED <<p_env, p_model, p_state_dict, p_attr, p_registry, p_updater,
                   p_started_with, p_tensor, p_receiver, p_worker, others_p>>

\* self.psyche_shared_state_dict = state_dict
StoreAttr ==
    /\ p_pc = "store"
    /\ p_attr' = TRUE
    /\ p_pc' = "register"
    /\ UNCHANGED <<p_env, p_model, p_state_dict, p_shared, p_registry, p_updater,
                   p_started_with, p_tensor, p_receiver, p_worker, others_p>>

\* register_shared_state_dict(worker_id, state_dict, model_config)
Register ==
    /\ p_pc = "register"
    /\ p_registry' = (0 :> p_state_dict) @@ p_registry
    /\ p_pc' = "environ"
    /\ UNCHANGED <<p_env, p_model, p_state_dict, p_shared, p_attr, p_updater,
                   p_started_with, p_tensor, p_receiver, p_worker, others_p>>

\* if os.environ.get("PSYCHE_USE_DISTRIBUTED_UPDATER") == "1"
Environ ==
    /\ p_pc = "environ"
    /\ p_pc' = IF p_env THEN "spawn" ELSE "done"
    /\ UNCHANGED <<p_env, p_model, p_state_dict, p_shared, p_attr, p_registry, p_updater,
                   p_started_with, p_tensor, p_receiver, p_worker, others_p>>

\* An updater process started as soon as the model is in shared memory
SpawnUpdaterEarly ==
    /\ p_pc = "state_dict"
    /\ p_env
    /\ p_updater = "none"
    /\ p_updater' = "started"
    /\ p_started_with' = Built
    /\ UNCHANGED <<p_pc, p_env, p_model, p_state_dict, p_shared, p_attr, p_registry,
                   p_tensor, p_receiver, p_worker, others_p>>

\* self._spawn_distributed_updater(state_dict, worker_id): the process is
\* started with state_dict as its argument, or the exception is logged and
\* load_model continues without an updater
SpawnUpdater ==
    /\ p_pc = "spawn"
    /\ \E ok \in BOOLEAN :
          IF ok
          THEN /\ p_updater' = "started"
               /\ p_started_with' = Built
          ELSE /\ p_updater' = "failed"
               /\ UNCHANGED p_started_with
    /\ p_pc' = "done"
    /\ UNCHANGED <<p_env, p_model, p_state_dict, p_shared, p_attr, p_registry,
                   p_tensor, p_receiver, p_worker, others_p>>

\* except Exception as e: ...; raise
SetupRaises ==
    /\ p_pc \in {"share_model", "state_dict", "share_tensors", "store", "register"}
    /\ p_pc' = "raised"
    /\ UNCHANGED <<p_env, p_model, p_state_dict, p_shared, p_attr, p_registry, p_updater,
                   p_started_with, p_tensor, p_receiver, p_worker, others_p>>

\* A copy_ into a tensor is not atomic: one that starts while the other
\* writer's is in progress on the same tensor leaves it torn
BeginCopy(name, other) ==
    p_tensor' = IF other = name THEN (name :> "torn") @@ p_tensor ELSE p_tensor

\* When such a copy ends the tensor holds either writer's data or a mixture
EndCopy(name, writer) ==
    IF p_tensor[name] = "torn"
    THEN \E outcome \in {"receiver", "worker", "torn"} :
            p_tensor' = (name :> outcome) @@ p_tensor
    ELSE p_tensor' = (name :> writer) @@ p_tensor

\* weight_updater_process: a parameter was received whose name is in
\* state_dict and whose shape matches; state_dict[param_name].data.copy_
\* begins (any other parameter is skipped)
ReceiverBeginCopy(name) ==
    /\ p_updater = "started"
    /\ p_receiver = "none"
    /\ name \in p_started_with.state_dict
    /\ p_receiver' = name
    /\ BeginCopy(name, p_worker)
    /\ UNCHANGED <<p_pc, p_env, p_model, p_state_dict, p_shared, p_attr, p_registry,
                   p_updater, p_started_with, p_worker, others_p>>

\* ... and completes
ReceiverEndCopy ==
    /\ p_receiver # "none"
    /\ EndCopy(p_receiver, "receiver")
    /\ p_receiver' = "none"
    /\ UNCHANGED <<p_pc, p_env, p_model, p_state_dict, p_shared, p_attr, p_registry,
                   p_updater, p_started_with, p_worker, others_p>>

\* weight_updater_process leaves its loop (shutdown signal or exception)
ReceiverStop ==
    /\ p_updater = "started"
    /\ p_receiver = "none"
    /\ p_updater' = "stopped"
    /\ UNCHANGED <<p_pc, p_env, p_model, p_state_dict, p_shared, p_attr, p_registry,
                   p_started_with, p_tensor, p_receiver, p_worker, others_p>>

\* update_psyche_weights, called in the worker once load_model has returned:
\* for an item that is a dict with a name of state_dict and data of the
\* parameter's shape, state_dict[name].data.copy_(new_weight) begins (any
\* other item is skipped)
WorkerBeginCopy(name) ==
    /\ p_pc = "done"
    /\ p_attr
    /\ p_worker = "none"
    /\ name \in p_state_dict
    /\ p_worker' = name
    /\ BeginCopy(name, p_receiver)
    /\ UNCHANGED <<p_pc, p_env, p_model, p_state_dict, p_shared, p_attr, p_registry,
                   p_updater, p_started_with, p_receiver, others_p>>

\* ... and completes
WorkerEndCopy ==
    /\ p_worker # "none"
    /\ EndCopy(p_worker, "worker")
    /\ p_worker' = "none"
    /\ UNCHANGED <<p_pc, p_env, p_model, p_state_dict, p_shared, p_attr, p_registry,
                   p_updater, p_started_with, p_receiver, others_p>>

NextP ==
    \/ LoadModel
    \/ ShareModel
    \/ StateDict
    \/ ShareTensors
    \/ StoreAttr
    \/ Register
    \/ Environ
    \/ SpawnUpdater
    \/ SetupRaises
    \/ \E name \in PatchParams : ReceiverBeginCopy(name)
    \/ ReceiverEndCopy
    \/ ReceiverStop
    \/ \E name \in PatchParams : WorkerBeginCopy(name)
    \/ WorkerEndCopy

SpecP == InitP /\ [][NextP]_vars

(***************************************************************************)
(* engine.py: UpdatableLLMEngine.update_weights in patched mode, and       *)
(* vllm_patch.py: update_psyche_weights of the patched worker              *)
(***************************************************************************)
EngineNames == {"w1", "w2", "absent"}

EngineShapes == {<<2>>, <<1, 2>>}

EngineTensors == [shape : EngineShapes, value : {1, 2}]

\* The worker's shared state_dict after load_model
WorkerStateDict ==
    [n \in {"w1", "w2"} |->
        [shape |-> IF n = "w1" THEN <<2>> ELSE <<1, 2>>, value |-> 0]]

\* A weight_dict of at most two entries, as the sequence of its items
WeightDicts ==
    {<<>>}
    \cup {<<<<n, t>>>> : n \in EngineNames, t \in EngineTensors}
    \cup {d \in {<<<<n1, t1>>, <<n2, t2>>>> :
                     n1 \in EngineNames, t1 \in EngineTensors,
                     n2 \in EngineNames, t2 \in EngineTensors} : d[1][1] # d[2][1]}

\* self._using_patched_mode = True (set by _build_param_registry when the
\* patches are available); weight_dict is the caller's
InitE ==
    /\ e_pc = "input"
    /\ e_attr \in BOOLEAN
    /\ e_weight_dict \in WeightDicts
    /\ e_state_dict = WorkerStateDict
    /\ e_weight_updates = <<>>
    /\ e_result = [returned |-> "none", updated_count |-> 0]
    /\ IdleT
    /\ IdleS
    /\ IdleC
    /\ IdleU
    /\ IdleW
    /\ IdleD
    /\ IdleB
    /\ IdleF
    /\ IdleP
    /\ IdleQ

\* An item of list(weight_dict.items()): a tuple (name, tensor)
TupleItem(pair) == [kind |-> "tuple", name |-> pair[1], tensor |-> pair[2]]

\* An item in the format of the worker's docstring: a dict with the keys
\* 'name', 'data' (the flat list of the values), 'shape' and 'dtype'
DictItem(pair) ==
    [kind |-> "dict", name |-> pair[1],
     data |-> [numel |-> Product(pair[2].shape), value |-> pair[2].value],
     shape |-> pair[2].shape, dtype |-> "float32"]

\* weight_updates = list(weight_dict.items())
Items(weight_dict) == [i \in 1..Len(weight_dict) |-> TupleItem(weight_dict[i])]

\* The body of the worker's loop for one item: the state_dict after it, and
\* whether the item was counted
UpdateOne(sd, item) ==
    IF item.kind # "dict"
    THEN [state_dict |-> sd, updated |-> 0]          \* "Invalid weight update format"
    ELSE IF item.name \notin DOMAIN sd
    THEN [state_dict |-> sd, updated |-> 0]          \* "not found in state_dict"
    ELSE IF item.shape # <<>> /\ Product(item.shape) # item.data.numel
    THEN [state_dict |-> sd, updated |-> 0]          \* reshape raises: logged
    ELSE IF (IF item.shape # <<>> THEN item.shape ELSE <<item.data.numel>>)
                # sd[item.name].shape
    THEN [state_dict |-> sd, updated |-> 0]          \* "Shape mismatch"
    ELSE [state_dict |-> [sd EXCEPT ![item.name].value = item.data.value],
          updated |-> 1]

RECURSIVE update_psyche_weights(_, _)
update_psyche_weights(sd, weight_updates) ==
    IF weight_updates = <<>>
    THEN [state_dict |-> sd, updated_count |-> 0]
    ELSE LET one == UpdateOne(sd, Head(weight_updates))
             rest == update_psyche_weights(one.state_dict, Tail(weight_updates))
         IN  [state_dict |-> rest.state_dict,
              updated_count |-> one.updated + rest.updated_count]

\* update_weights: in patched mode the items of weight_dict go to the workers
\* by collective_rpc("update_psyche_weights", args=(weight_updates,))
UpdateWeights ==
    /\ e_pc = "input"
    /\ e_weight_updates' = Items(e_weight_dict)
    /\ e_pc' = "rpc"
    /\ UNCHANGED <<e_attr, e_weight_dict, e_state_dict, e_result, others_e>>

\* The same method called with a list in the format of its docstring
RpcWithDicts ==
    /\ e_pc = "input"
    /\ e_weight_updates' = [i \in 1..Len(e_weight_dict) |-> DictItem(e_weight_dict[i])]
    /\ e_pc' = "rpc_dicts"
    /\ UNCHANGED <<e_attr, e_weight_dict, e_state_dict, e_result, others_e>>

\* update_psyche_weights in the worker
UpdatePsycheWeights ==
    /\ e_pc \in {"rpc", "rpc_dicts"}
    /\ IF ~e_attr
       THEN /\ e_result' = [returned |-> "False", updated_count |-> 0]
            /\ UNCHANGED e_state_dict
       ELSE LET r == update_psyche_weights(e_state_dict, e_weight_updates)
            IN  /\ e_state_dict' = r.state_dict
                /\ e_result' = [returned |-> "True", updated_count |-> r.updated_count]
    /\ e_pc' = IF e_pc = "rpc" THEN "returned" ELSE "returned_dicts"
    /\ UNCHANGED <<e_attr, e_weight_dict, e_weight_updates, others_e>>

NextE == UpdateWeights \/ RpcWithDicts \/ UpdatePsycheWeights

SpecE == InitE /\ [][NextE]_vars

(***************************************************************************)
(* updater.py: run() of the WeightUpdater daemon, fed by the queue of      *)
(* manager.py's VLLMWithUpdater                                            *)
(***************************************************************************)
\* What VLLMWithUpdater, or another holder of the queue, puts: a dict of
\* deltas, a WeightUpdate, "CHECKPOINT", or something run() does not know
QueueKinds == {"dict", "WeightUpdate", "CHECKPOINT", "unknown"}

Message(kind, id) == [kind |-> kind, id |-> id]

NoUpdate == Message("none", 0)

\* spawn_updater_process: WeightUpdater(...); mp.Process(target=updater.run,
\* daemon=True).start()
InitQ ==
    /\ q_pc = "run"
    /\ q_queue = <<>>
    /\ q_update = NoUpdate
    /\ q_exc = "none"
    /\ q_manager = "running"
    /\ q_enqueued = <<>>
    /\ q_processed = <<>>
    /\ IdleT
    /\ IdleS
    /\ IdleC
    /\ IdleU
    /\ IdleW
    /\ IdleD
    /\ IdleB
    /\ IdleF
    /\ IdleP
    /\ IdleE

\* self.weight_queue.put(x)
Put(m) ==
    /\ q_queue' = Append(q_queue, m)
    /\ q_enqueued' = Append(q_enqueued, m)

\* update_weights(weight_delta), checkpoint(), or a put by the holder of the
\* queue; nothing keeps them from following a shutdown()
PutUpdate ==
    /\ Len(q_enqueued) < MaxItems
    /\ \E kind \in QueueKinds : Put(Message(kind, Len(q_enqueued) + 1))
    /\ UNCHANGED <<q_pc, q_update, q_exc, q_manager, q_processed, others_q>>

\* shutdown(): self.weight_queue.put("SHUTDOWN"), then
\* self.updater_process.join(timeout=5)
ShutdownPut ==
    /\ Len(q_enqueued) < MaxItems
    /\ q_manager = "running"
    /\ Put(Message("SHUTDOWN", Len(q_enqueued) + 1))
    /\ q_manager' = "joining"
    /\ UNCHANGED <<q_pc, q_update, q_exc, q_processed, others_q>>

\* ... the join returns and the process has ended
JoinEnded ==
    /\ q_manager = "joining"
    /\ q_pc = "stopped"
    /\ q_manager' = "done"
    /\ UNCHANGED <<q_pc, q_queue, q_update, q_exc, q_enqueued, q_processed, others_q>>

\* ... the join times out after 5 seconds with the process alive:
\* self.updater_process.terminate(); self.updater_process.join()
JoinTimedOut ==
    /\ q_manager = "joining"
    /\ q_pc \in {"run", "handling"}
    /\ q_pc' = "terminated"
    /\ q_manager' = "done"
    /\ UNCHANGED <<q_queue, q_update, q_exc, q_enqueued, q_processed, others_q>>

\* update = self.weight_queue.get(timeout=1.0) returns the oldest message;
\* "SHUTDOWN" breaks the loop (on queue.Empty the loop continues: no change)
Get ==
    /\ q_pc = "run"
    /\ q_queue # <<>>
    /\ q_update' = Head(q_queue)
    /\ q_queue' = Tail(q_queue)
    /\ q_pc' = IF Head(q_queue).kind = "SHUTDOWN" THEN "stopped" ELSE "handling"
    /\ UNCHANGED <<q_exc, q_manager, q_enqueued, q_processed, others_q>>

\* _checkpoint_state(), apply_batch_update(update), apply_single_update(update)
\* or the warning for an unknown type; an exception of the two apply methods
\* is caught in run(), the state restored, and the loop goes on
Handle ==
    /\ q_pc = "handling"
    /\ \E exc \in {"none", "Exception"} :
          /\ exc # "none" => q_update.kind \in {"dict", "WeightUpdate"}
          /\ q_exc' = exc
    /\ q_processed' = Append(q_processed, q_update)
    /\ q_pc' = "run"
    /\ UNCHANGED <<q_queue, q_update, q_manager, q_enqueued, others_q>>

NextQ ==
    \/ PutUpdate
    \/ ShutdownPut
    \/ JoinEnded
    \/ JoinTimedOut
    \/ Get
    \/ Handle

SpecQ == InitQ /\ [][NextQ]_vars

\* The daemon process is scheduled as long as it has a step to take
FairSpecQ == SpecQ /\ WF_vars(Get) /\ WF_vars(Handle)

(***************************************************************************)
(* Specification of the transforms: draw an argument, permute it, permute  *)
(* the result again.                                                       *)
(***************************************************************************)
InitT ==
    /\ t_pc = "input"
    /\ t_n_heads \in 1..MaxHeads
    /\ \E out_dim \in 1..MaxOutDim, in_dim \in 1..MaxInDim, base \in 0..MaxBase :
          t_weight = Arange(out_dim, in_dim, base)
    /\ t_once = Raise("unset")
    /\ t_twice = Raise("unset")
    /\ IdleS
    /\ IdleC
    /\ IdleU
    /\ IdleW
    /\ IdleD
    /\ IdleB
    /\ IdleF
    /\ IdleP
    /\ IdleE
    /\ IdleQ

PermuteOnce ==
    /\ t_pc = "input"
    /\ t_once' = permute_for_rotary(t_weight, t_n_heads)
    /\ t_pc' = IF t_once'.exc = "none" THEN "once" ELSE "raised"
    /\ UNCHANGED <<t_weight, t_n_heads, t_twice, others_t>>

PermuteTwice ==
    /\ t_pc = "once"
    /\ t_twice' = permute_for_rotary(t_once.val, t_n_heads)
    /\ t_pc' = IF t_twice'.exc = "none" THEN "twice" ELSE "raised"
    /\ UNCHANGED <<t_weight, t_n_heads, t_once, others_t>>

NextT == PermuteOnce \/ PermuteTwice

SpecT == InitT /\ [][NextT]_vars

(***************************************************************************)
(* Reading the history of a worker                                         *)
(***************************************************************************)
IsFetch(e) == e.kind = "fetch"

\* What needs the trainer
TrainerWork ==
    {"receive_distro_results", "trainer.train", "all_reduce", "trainer.optimize",
     "trainer.extract"}

\* The work of any operation other than Configure
OperationWork == TrainerWork \cup {"receive_batch", "model.forward"}

\* What a dispatched branch does
BranchWork == OperationWork \cup {"configure", "exit"}

Before(w, e, k) == \E j \in 1..(k - 1) : log[w][j] = e

NeedsTrainer == {"train", "optimize", "extract"}

C3_Lockstep ==
    /\ (s_pc = "payload") <=> (r_pc = "payload")
    /\ (r_pc = "exited") <=> (s_pc = "done")
    /\ s_pc = "done" => s_issued = r_issued

(***************************************************************************)
(* C11.  Shutdown takes precedence: a step in which the receiver's         *)
(* metadata buffer is filled with a header that carries the shutdown flag  *)
(* ends the loop, whatever the other fields hold: nothing is decoded from  *)
(* them, no payload broadcast is issued, and the registry and the counters *)
(* are as they were.                                                       *)
(***************************************************************************)
HeaderReceived == r_pc = "header" /\ (r_pc' # "header" \/ r_issued' # r_issued)

ShutdownReceived == HeaderReceived /\ r_metadata'[1] = -1

C11_ShutdownPrecedence ==
    [][ShutdownReceived =>
          /\ r_pc' = "exited"
          /\ r_param' = [NoParam EXCEPT !.kind = "shutdown"]
          /\ r_issued' = r_issued
          /\ state_dict' = state_dict
          /\ update_count' = update_count
          /\ applied_count' = applied_count]_vars

\* The loop has ended on a shutdown header whose other fields describe a
\* parameter of the registry
C11_Witness ==
    /\ r_pc = "exited"
    /\ r_metadata = RawHeader(<<-1, 1, 97, 1, 2, 0>>)
    /\ r_source = "header"

(***************************************************************************)
(* C12.  The header round-trips: when broadcast_parameter has broadcast    *)
(* the header of a name and a tensor, the receiver has decoded the same    *)
(* name, the same shape and the same dtype, not a shutdown.  The code      *)
(* refutes it for the empty name and for a name that ends in "\x00".       *)
(***************************************************************************)
C12_HeaderRoundTrip ==
    (s_pc = "payload" /\ r_source = "header") =>
        r_param = [kind |-> "param", name |-> s_name, shape |-> s_tensor.shape,
                   dtype |-> s_tensor.dtype]

(***************************************************************************)
(* C13.  A step in which the receiver receives the tensor of a message     *)
(* changes the registry only so: if the decoded name is in the registry    *)
(* with the decoded shape, that parameter takes the tensor's values and    *)
(* keeps its shape and dtype; otherwise nothing changes.  The names of the *)
(* registry and all other parameters stay as they are, the receiver goes   *)
(* on to the next header, and no other step changes the registry.          *)
(***************************************************************************)
TensorReceived == update_count' = update_count + 1

C13_RegistryFrame ==
    [][/\ DOMAIN state_dict' = DOMAIN state_dict
       /\ TensorReceived =>
            /\ \A n \in DOMAIN state_dict :
                  n # r_param.name => state_dict'[n] = state_dict[n]
            /\ IF r_param.name \in DOMAIN state_dict
                  /\ state_dict[r_param.name].shape = r_param.shape
               THEN state_dict'[r_param.name] =
                        [state_dict[r_param.name] EXCEPT !.data = s_tensor.data]
               ELSE state_dict' = state_dict
            /\ r_pc' = "header"
            /\ r_group' = "initialized"
       /\ ~TensorReceived => state_dict' = state_dict]_vars

\* One message was applied, one was received and not applied
C13_Witness ==
    /\ update_count = applied_count + 1
    /\ applied_count = 1
    /\ \E n \in DOMAIN state_dict : state_dict[n].data # <<0, 0>>

(***************************************************************************)
(* C14.  An unknown dtype code is not fatal: the receiver that has skipped *)
(* such a message is still in its loop with its process group, and what it *)
(* decodes as a header is always a header the sender broadcast as one, so  *)
(* that the messages that follow are processed as sent.  The code refutes  *)
(* it: the receiver goes to its next metadata broadcast while the sender   *)
(* is in the payload broadcast of the skipped message.                     *)
(***************************************************************************)
C14_UnknownDtypeSkipped ==
    /\ r_param.kind = "unknown_dtype" => (r_pc = "header" /\ r_group = "initialized")
    /\ r_source = "header"

(***************************************************************************)
(* C15.  A header without the shutdown flag whose name length is 0 or      *)
(* greater than 100 ends the loop: the step that receives it issues no     *)
(* payload broadcast, leaves the registry and the counters as they were    *)
(* and destroys the process group; and once the loop has ended nothing of  *)
(* the receiver changes any more.                                          *)
(***************************************************************************)
BadLengthReceived ==
    /\ HeaderReceived
    /\ r_metadata'[1] # -1
    /\ (r_metadata'[2] = 0 \/ r_metadata'[2] > NameLimit)

C15_BadLengthFatal ==
    [][/\ BadLengthReceived =>
            /\ r_pc' = "exited"
            /\ r_group' = "destroyed"
            /\ r_issued' = r_issued
            /\ state_dict' = state_dict
            /\ update_count' = update_count
            /\ applied_count' = applied_count
       /\ r_pc = "exited" =>
            UNCHANGED <<r_pc, r_param, r_issued, r_metadata, r_group, state_dict,
                        update_count, applied_count>>]_vars

\* The loop has ended on a header with a name length of more than 100, after
\* a message was applied, and the sender is left in its payload broadcast
C15_Witness ==
    /\ r_pc = "exited"
    /\ r_group = "destroyed"
    /\ r_param.kind = "invalid_len"
    /\ r_metadata[2] > NameLimit
    /\ applied_count = 1
    /\ s_pc = "payload"

\* The layer of a name of the state_dict
LayerOf(name) == name[2]

\* C16: with transform_type "qkv" or "gate_up", whatever the order in which
\* the weights of several layers arrive, a fused parameter of the state_dict
\* holds only weights that were sent for its own layer: a fused tensor is
\* built from the components of one layer and written to that layer's fused
\* parameter.
C16_FusedFromOneLayer ==
    \A i \in 1..Len(w_state_dict) :
        LET name == w_state_dict[i].name
            tensor == w_state_dict[i].tensor
        IN  (Contains(name, "qkv_proj") \/ Contains(name, "gate_up_proj")) =>
                \A r \in 1..Rows(tensor) :
                    tensor[r][1] = 0 \/ ToString(SentFor(tensor[r][1])) = LayerOf(name)

\* C17: when the control loop has ended by an exit operation or by a key
\* that is not set, the worker has released its process group: main() does
\* not return with the group still initialized.
C17_GroupReleased ==
    \A w \in ranks : pc[w] = "returned" => group[w] = "destroyed"

\* The descriptor of iteration i carries a sparse-result count above 0
SparseCount(i) ==
    /\ StrKey(i) \in DOMAIN store
    /\ store[StrKey(i)].operation \in {"train", "optimize"}
    /\ store[StrKey(i)].results_len > 0

\* C18: whenever a train or optimize descriptor has a sparse-result count
\* above 0, the worker joins the broadcasts of receive_distro_results before
\* it receives the batch (train) or applies the optimizer update (optimize):
\* a count above 0 is never handled as if there were no sparse results.
C18_SparseJoinedFirst ==
    \A w \in ranks : \A k \in 1..Len(log[w]) :
        (log[w][k].kind \in {"receive_batch", "trainer.optimize"}
            /\ SparseCount(log[w][k].iteration))
            => Before(w, Event("receive_distro_results", log[w][k].iteration), k)

\* What rank 0 sent in the broadcast of the given kind for param_index
BroadcastOf(kind, param_index) ==
    LET j == CHOOSE i \in 1..Len(d_joined) :
                 d_joined[i].kind = kind /\ d_joined[i].param_index = param_index
    IN  d_joined[j].tensor

\* Slice r (from 1) of a broadcast tensor along its leading dimension, as a
\* tensor of the given per-result size
SliceOf(tensor, r, size) ==
    [shape |-> size, dtype |-> tensor.dtype,
     data |-> [k \in 1..Product(size) |-> tensor.data[(r - 1) * Product(size) + k]]]

\* C19: for results_len = R > 0 and metadata of P parameters the call returns
\* exactly R results of exactly P entries each; entry results[r][p] is slice
\* r of parameter p's broadcast index tensor, slice r of its broadcast value
\* tensor, xshape[p] and totalk[p], and the shapes of the two slices are
\* sparse_idx_size[p] and sparse_val_size[p] (the buffer's shape without
\* its leading results_len dimension).
C19_ResultsByResultThenParam ==
    d_pc = "returned" =>
        /\ Len(d_results) = d_results_len
        /\ \A r \in 1..d_results_len :
              /\ Len(d_results[r]) = Len(d_metadata.sparse_idx_size)
              /\ \A p \in 1..Len(d_metadata.sparse_idx_size) :
                    d_results[r][p] =
                        DistroResult(SliceOf(BroadcastOf("idx", p - 1), r,
                                             d_metadata.sparse_idx_size[p]),
                                     SliceOf(BroadcastOf("val", p - 1), r,
                                             d_metadata.sparse_val_size[p]),
                                     d_metadata.xshape[p],
                                     d_metadata.totalk[p])

C19_Witness ==
    /\ d_pc = "returned"
    /\ d_results_len = 2
    /\ Len(d_results) = 2
    /\ Len(d_metadata.sparse_idx_size) = 2
    /\ d_metadata.sparse_idx_size[1] = <<1, 2>>
    /\ d_metadata.sparse_idx_size[2] = <<2>>

\* The broadcasts of a call in the order of the metadata: idx_0, val_0,
\* idx_1, val_1, ...; only the leading dimension of a buffer depends on
\* results_len
ExpectedBroadcasts(results_len, metadata) ==
    [i \in 1..(2 * Len(metadata.sparse_idx_size)) |->
        IF i % 2 = 1
        THEN [kind |-> "idx", param_index |-> (i - 1) \div 2,
              shape |-> <<results_len>> \o metadata.sparse_idx_size[(i + 1) \div 2]]
        ELSE [kind |-> "val", param_index |-> (i - 1) \div 2,
              shape |-> <<results_len>> \o metadata.sparse_val_size[i \div 2]]]

JoinedBroadcasts ==
    [i \in 1..Len(d_joined) |->
        [kind |-> d_joined[i].kind, param_index |-> d_joined[i].param_index,
         shape |-> d_joined[i].tensor.shape]]

\* C20: for metadata of P parameters the call joins exactly 2*P broadcasts,
\* in the order idx_0, val_0, idx_1, val_1, ..., idx_{P-1}, val_{P-1}, each
\* with a buffer shaped (results_len,) + the entry's size: at every point of
\* the loop the broadcasts joined are the first ones of that order, and a
\* call that returns has joined all of them.  Which broadcasts, and in
\* which order, is the same for every results_len.
C20_BroadcastOrder ==
    d_pc \in {"loop", "idx", "val", "append", "returned"} =>
        /\ Len(d_joined) <= 2 * Len(d_metadata.sparse_idx_size)
        /\ JoinedBroadcasts =
              SubSeq(ExpectedBroadcasts(d_results_len, d_metadata), 1, Len(d_joined))
        /\ d_pc = "returned" => Len(d_joined) = 2 * Len(d_metadata.sparse_idx_size)

C20_Witness ==
    /\ d_pc = "returned"
    /\ d_results_len = 1
    /\ Len(d_joined) = 4
    /\ d_joined[3].kind = "idx"
    /\ d_joined[3].param_index = 1

\* The four lists of the metadata have one length
EqualLengths(metadata) ==
    \A a, b \in {Len(metadata.sparse_idx_size), Len(metadata.sparse_val_size),
                  Len(metadata.xshape), Len(metadata.totalk)} : a = b

\* C21: if the lists sparse_idx_size, sparse_val_size, xshape and totalk of
\* the metadata do not all have the same length, the call fails with
\* AssertionError before it joins any broadcast and returns no result, and
\* nothing catches the failure: once raised, the call does nothing more.
C21_UnequalListsFatal ==
    [][/\ (d_pc' # "ready" /\ ~EqualLengths(d_metadata'))
            => /\ d_pc' = "raised"
               /\ d_exc' = "AssertionError"
               /\ d_joined' = <<>>
               /\ d_results' = <<>>
       /\ d_pc = "raised" => UNCHANGED vars_d]_vars

C21_Witness ==
    /\ d_pc = "raised"
    /\ d_exc = "AssertionError"
    /\ Len(d_metadata.sparse_idx_size) = Len(d_metadata.sparse_val_size)
    /\ Len(d_metadata.xshape) = 2
    /\ Len(d_metadata.totalk) = 1

\* C24: a hyperparameters operation with grad_accum_in_fp32 = true is fatal:
\* main() ends with ValueError, no trainer is constructed and a trainer that
\* exists is not replaced, and the worker does nothing after it, whatever
\* operations are published later.
C24_Fp32Rejected ==
    [][\A w \in ranks :
          /\ (Dispatching(w, "hyperparameters") /\ operation[w].grad_accum_in_fp32
                  /\ pc'[w] # pc[w])
                => /\ pc'[w] = "raised"
                   /\ error'[w] = "ValueError"
                   /\ trainer'[w] = trainer[w]
                   /\ log'[w] = log[w]
                   /\ iteration'[w] = iteration[w]
          /\ pc[w] = "raised"
                => /\ pc'[w] = "raised"
                   /\ error'[w] = error[w]
                   /\ trainer'[w] = trainer[w]
                   /\ log'[w] = log[w]
                   /\ iteration'[w] = iteration[w]]_vars

C24_Witness ==
    \E w \in ranks :
        /\ pc[w] = "raised"
        /\ error[w] = "ValueError"
        /\ trainer[w] = "Trainer"
        /\ iteration[w] = 1
        /\ StrKey(2) \in DOMAIN store

\* The broadcasts of a batch: input_ids, then labels and position_ids if
\* the descriptor has them, each of batch_shape and sent by rank 0
BatchBroadcasts(op) ==
    LET entry(tensor) == [tensor |-> tensor, shape |-> op.batch_shape, src |-> 0]
    IN  <<entry("input_ids")>>
        \o (IF op.batch_has_labels THEN <<entry("labels")>> ELSE <<>>)
        \o (IF op.batch_has_position_ids THEN <<entry("position_ids")>> ELSE <<>>)

IsPrefix(a, b) == Len(a) <= Len(b) /\ a = SubSeq(b, 1, Len(a))

\* C22: a train operation without sparse results joins exactly
\* 1 + [has_labels] + [has_position_ids] broadcasts from rank 0, in the order
\* input_ids, labels, position_ids, each of batch_shape; only then it runs
\* the train step, then it joins exactly one all-reduce of the loss, after
\* which every rank holds the same loss value.
C22_TrainStepSequence ==
    b_operation.operation = "train" =>
        \A w \in BatchWorkers :
            /\ IsPrefix(b_joined[w], BatchBroadcasts(b_operation))
            /\ IsPrefix(b_calls[w], <<"trainer.train", "all_reduce">>)
            /\ b_calls[w] # <<>> => b_joined[w] = BatchBroadcasts(b_operation)
            /\ b_pc[w] = "next"
                  => /\ b_calls[w] = <<"trainer.train", "all_reduce">>
                     /\ \A r \in DOMAIN b_loss : b_loss[r] = b_loss[w]

C22_Witness ==
    /\ b_operation.operation = "train"
    /\ b_operation.batch_has_labels
    /\ ~b_operation.batch_has_position_ids
    /\ \A w \in BatchWorkers : b_pc[w] = "next" /\ Len(b_joined[w]) = 2
    /\ b_loss[1] = 2

\* C23: a forward operation receives its batch with the broadcasts a train
\* operation of the same descriptor joins, calls model.forward and nothing
\* of the trainer, joins no all-reduce, and leaves the trainer reference as
\* it is; of the loop's state only the iteration index changes, by one.
C23_ForwardFrame ==
    [][b_operation.operation = "forward" =>
          \A w \in BatchWorkers :
              /\ b_trainer'[w] = b_trainer[w]
              /\ b_error'[w] = "none"
              /\ IsPrefix(b_joined'[w], BatchBroadcasts([b_operation EXCEPT !.operation = "train"]))
              /\ IsPrefix(b_calls'[w], <<"model.forward">>)
              /\ b_iteration'[w] = IF b_pc'[w] = "next" /\ b_pc[w] # "next"
                                   THEN b_iteration[w] + 1
                                   ELSE b_iteration[w]
              /\ b_pc'[w] = "next"
                    => /\ b_pc[w] \in {"execute", "next"}
                       /\ b_calls'[w] = <<"model.forward">>
                       /\ b_joined'[w] =
                             BatchBroadcasts([b_operation EXCEPT !.operation = "train"])]_vars

C23_Witness ==
    /\ b_operation.operation = "forward"
    /\ b_operation.batch_has_position_ids
    /\ b_pc[1] = "next"
    /\ b_trainer[1] = "None"
    /\ b_iteration[1] = 1
    /\ b_pc[2] = "dispatch"

(***************************************************************************)
(* Readers of the updater's history                                        *)
(***************************************************************************)
Expected(type) == IF type = "qkv_fusion" THEN {"q", "k", "v"} ELSE {"gate", "up"}

FusedTarget(g) ==
    IF g[2] = "qkv_fusion" THEN get_vllm_qkv_param_name(g[1])
    ELSE get_vllm_gate_up_param_name(g[1])

ComponentShape(component) ==
    LET c == ModelConfig
    IN  CASE component = "q" -> <<c.n_heads * c.head_dim, c.hidden_dim>>
          [] component \in {"k", "v"} -> <<c.n_kv_heads * c.head_dim, c.hidden_dim>>
          [] OTHER -> <<c.intermediate_dim, c.hidden_dim>>

WellShaped(components) ==
    \A c \in DOMAIN components : Shape(components[c]) = ComponentShape(c)

(***************************************************************************)
(* C4.  Once all components of a layer's group (q, k and v, resp. gate     *)
(* and up), each of its training shape, have been delivered through        *)
(* apply_batch_update, the fused tensor has been written to the layer's    *)
(* fused target: in a registry that holds the fused target no group is     *)
(* ever left with all its components delivered and no fused write.  The    *)
(* code refutes it for a registry that holds only the fused names.         *)
(***************************************************************************)
C4_FusedOnceDelivered ==
    \A g \in DOMAIN u_delivered :
        (FusedTarget(g) \in DOMAIN param_registry /\ WellShaped(u_delivered[g]))
            => DOMAIN u_delivered[g] # Expected(g[2])

(***************************************************************************)
(* C5.  After the handling of any component update, however it ended, no   *)
(* entry of qkv_buffers holds all of q, k and v and no entry of            *)
(* gate_up_buffers holds both gate and up.  The code refutes it when the   *)
(* fusion or the fused write raises.                                       *)
(***************************************************************************)
C5_BuffersPartial ==
    /\ \A layer_key \in DOMAIN qkv_buffers :
          DOMAIN qkv_buffers[layer_key] # {"q", "k", "v"}
    /\ \A layer_key \in DOMAIN gate_up_buffers :
          DOMAIN gate_up_buffers[layer_key] # {"gate", "up"}

(***************************************************************************)
(* C6.  When a group completes and its fused target is absent from the     *)
(* registry, no exception reaches the caller, no parameter is rolled back  *)
(* and the batch goes on.  The code refutes it: the write raises KeyError. *)
(***************************************************************************)
C6_UnresolvedTargetNonFatal ==
    u_cause = "unresolved_target" => (u_exc = "none" /\ param_registry = u_effects)

(***************************************************************************)
(* C7, as claimed.  When the components of a completed group cannot be     *)
(* concatenated, the writes the batch has made to other groups and         *)
(* parameters persist.                                                     *)
(***************************************************************************)
C7_OtherWritesPersist ==
    u_cause = "fusion_failed" => param_registry = u_effects

(***************************************************************************)
(* C7, amended.  When the components of a completed group cannot be        *)
(* concatenated, the RuntimeError reaches run(), the batch is over (the    *)
(* items after the failing one are not applied) and every parameter of the *)
(* registry holds its value of the last checkpoint: no write of the batch  *)
(* persists.                                                               *)
(***************************************************************************)
C7_MismatchRevertsBatch ==
    u_cause = "fusion_failed" =>
        /\ u_exc = "RuntimeError"
        /\ u_pc # "batch"
        /\ u_seen = {}
        /\ param_registry = last_good_state

\* A batch wrote to the registry, then failed to concatenate a group
C7_Witness ==
    /\ u_cause = "fusion_failed"
    /\ u_effects # u_before
    /\ param_registry = u_before

(***************************************************************************)
(* C8.  In every iteration the worker passes the barrier first and only    *)
(* then fetches the descriptor: no fetch of descriptor i happens before    *)
(* the worker has passed barrier i.  The code refutes it.                  *)
(***************************************************************************)
C8_BarrierBeforeFetch ==
    \A w \in ranks : \A k \in 1..Len(log[w]) :
        log[w][k].kind = "fetch" => Before(w, Event("barrier", log[w][k].iteration), k)

(***************************************************************************)
(* C8, amended.  In every iteration the worker fetches the descriptor      *)
(* first and only then passes the barrier: barrier i is never passed       *)
(* before descriptor i has been fetched, and nothing of operation i is     *)
(* done before barrier i has been passed.                                  *)
(***************************************************************************)
C8_FetchBeforeBarrier ==
    \A w \in ranks : \A k \in 1..Len(log[w]) :
        /\ log[w][k].kind = "barrier" => Before(w, Event("fetch", log[w][k].iteration), k)
        /\ log[w][k].kind \in BranchWork
              => Before(w, Event("barrier", log[w][k].iteration), k)

C8_Witness ==
    \E w \in ranks : \E k \in 1..Len(log[w]) :
        /\ log[w][k] = Event("barrier", 1)
        /\ k > 1
        /\ log[w][k - 1] = Event("fetch", 1)

(***************************************************************************)
(* C9.  A worker processes the operations in the order of the iteration    *)
(* index: the indices it fetches are 0, 1, 2, ... with none skipped,       *)
(* repeated or reordered, everything it does for index i lies between      *)
(* the fetch of i and the fetch of i+1, and what it fetched for i is the   *)
(* store's entry of key str(i), in whatever order the keys were set.       *)
(***************************************************************************)
C9_InOrder ==
    \A w \in ranks :
        LET fetched == SelectSeq(log[w], IsFetch)
        IN  /\ \A n \in 1..Len(fetched) : fetched[n].iteration = n - 1
            /\ iteration[w] \in {Len(fetched), Len(fetched) - 1}
            /\ \A k \in 1..Len(log[w]) :
                  /\ log[w][k].kind # "fetch_failed"
                        => Before(w, Event("fetch", log[w][k].iteration), k + 1)
                  /\ \A j \in 1..k : log[w][j].iteration <= log[w][k].iteration
            /\ pc[w] \in {"barrier", "in_barrier", "dispatch"}
                  => operation[w] = store[StrKey(iteration[w])]

C9_Witness ==
    /\ unordered
    /\ \E w \in ranks :
          /\ Len(SelectSeq(log[w], IsFetch)) = 3
          /\ iteration[w] = 3

(***************************************************************************)
(* C10.  When the store has no descriptor for the next index (the fetch    *)
(* fails) the loop ends normally, exactly as for an exit operation: the    *)
(* worker has returned, with no error, and does nothing afterwards.        *)
(***************************************************************************)
C10_MissingKeyEndsNormally ==
    \A w \in ranks :
        /\ \A k \in 1..Len(log[w]) :
              log[w][k].kind \in {"fetch_failed", "exit"}
                  => k = Len(log[w]) /\ pc[w] = "returned" /\ error[w] = "none"
        /\ pc[w] = "raised" => log[w] # <<>> /\ log[w][Len(log[w])].kind = "barrier"

C10_Witness ==
    \E w \in ranks :
        /\ pc[w] = "returned"
        /\ error[w] = "none"
        /\ log[w][Len(log[w])] = Event("fetch_failed", 2)

(***************************************************************************)
(* C1.  permute_for_rotary is its own inverse: for every weight of shape   *)
(* (n_heads*head_dim, d) with even head_dim, permuting twice gives the     *)
(* weight back, row for row, with the same shape.                          *)
(* (Two transposes of a (head_dim/2, 2) grid cancel only when the second    *)
(* one reads the grid as (2, head_dim/2); the code reads it as             *)
(* (head_dim/2, 2) again, which is the identity only for head_dim <= 4.)   *)
(***************************************************************************)
C1_PermuteInvolution ==
    t_pc = "twice" =>
        /\ Shape(t_twice.val) = Shape(t_weight)
        /\ t_twice.val = t_weight

\* C25: the tensor a fused write applies does not depend on the order in which
\* the components arrived. In the step that releases a layer's q/k/v group the
\* fused target receives concat([permute(q, n_heads), permute(k, n_kv_heads), v])
\* of the components buffered and the one arriving, whichever of them that
\* is; in the step that releases a gate/up group the target receives
\* concat([gate, up]).
Applied(target, fused) ==
    IF update_mode = "delta" THEN AddInPlace(param_registry[target], fused)
    ELSE Expand(param_registry[target], fused)

Arriving(buffers, layer_key, type) ==
    {Stored(buffers, layer_key, transform_config[item.name].component, item.tensor) :
        item \in {i \in UpdateItems : /\ i.name \in DOMAIN transform_config
                                      /\ transform_config[i.name].type = type
                                      /\ extract_layer_key(i.name) = layer_key
                                      /\ i.name \in u_seen' \/ u_seen' = {}}}

C25_FusionOrderFree ==
    [][\A layer_key \in DOMAIN qkv_buffers \cup DOMAIN gate_up_buffers :
         /\ (layer_key \in DOMAIN qkv_buffers /\ layer_key \notin DOMAIN qkv_buffers')
              => \E got \in Arriving(qkv_buffers, layer_key, "qkv_fusion") :
                     LET q == permute_for_rotary(got["q"], ModelConfig.n_heads)
                         k == permute_for_rotary(got["k"], ModelConfig.n_kv_heads)
                     IN  /\ DOMAIN got = {"q", "k", "v"}
                         /\ q.exc = "none" /\ k.exc = "none"
                         /\ u_effects'[get_vllm_qkv_param_name(layer_key)] =
                                Applied(get_vllm_qkv_param_name(layer_key),
                                        ConcatRows(<<q.val, k.val, got["v"]>>))
         /\ (layer_key \in DOMAIN gate_up_buffers /\ layer_key \notin DOMAIN gate_up_buffers')
              => \E got \in Arriving(gate_up_buffers, layer_key, "gate_up_fusion") :
                     /\ DOMAIN got = {"gate", "up"}
                     /\ u_effects'[get_vllm_gate_up_param_name(layer_key)] =
                            Applied(get_vllm_gate_up_param_name(layer_key),
                                    ConcatRows(<<got["gate"], got["up"]>>))]_vars

\* k and v came in an earlier batch and q, the first item of the next batch,
\* came last: the group was fused and the target holds the fused tensor
C25_Witness ==
    /\ u_cause = "fused"
    /\ u_pc = "batch"
    /\ u_seen = {LayerParam(0, "self_attn", "q_proj")}
    /\ qkv_buffers = <<>>
    /\ param_registry[LayerParam(0, "self_attn", "qkv_proj")]
           # Zeros(Rows(param_registry[LayerParam(0, "self_attn", "qkv_proj")]), 1)

\* C28: a partial fusion group is never evicted. In every step of the daemon
\* (an update to another layer, a CHECKPOINT, an error recovery, the shutdown)
\* a buffered group that lacks a component keeps the components it has, unless
\* the step delivers its one missing component and the fused write succeeds.
Kept(buffers, after, layer_key, all) ==
    DOMAIN buffers[layer_key] # all
        => \/ /\ layer_key \in DOMAIN after
              /\ DOMAIN buffers[layer_key] \subseteq DOMAIN after[layer_key]
           \/ /\ layer_key \notin DOMAIN after
              /\ u_cause' = "fused"
              /\ u_exc' = "none"
              /\ Cardinality(all \ DOMAIN buffers[layer_key]) = 1

C28_PartialGroupKept ==
    [][/\ \A layer_key \in DOMAIN qkv_buffers :
             Kept(qkv_buffers, qkv_buffers', layer_key, {"q", "k", "v"})
       /\ \A layer_key \in DOMAIN gate_up_buffers :
             Kept(gate_up_buffers, gate_up_buffers', layer_key, {"gate", "up"})]_vars

\* Layer 1 has its k buffered; a batch for layer 0 has just failed and the
\* registry was restored
C28_Witness ==
    /\ u_exc # "none"
    /\ u_pc = "run"
    /\ <<"model", "layers", "1">> \in DOMAIN qkv_buffers
    /\ DOMAIN qkv_buffers[<<"model", "layers", "1">>] = {"k"}
    /\ param_registry = last_good_state

\* C26: for a query weight of n_heads * hd rows and key and value weights of
\* n_kv_heads * hd rows, all of d columns, the tensor apply_qkv_fusion returns
\* has (n_heads + 2 * n_kv_heads) * hd rows and d columns; its first
\* n_heads * hd rows are the query block (permuted with n_heads when
\* apply_rotary), the next n_kv_heads * hd rows the key block (permuted with
\* n_kv_heads when apply_rotary), the last n_kv_heads * hd rows the value
\* block as given. The call returns whenever the permutation is defined
\* (hd even) or not asked for.
HeadDim == Rows(f_args.q_weight) \div f_args.n_heads

C26_QkvShapeLaw ==
    LET n == f_args.n_heads
        kv == KvHeads(f_args.n_heads, f_args.n_kv_heads)
        hd == HeadDim
        Block(weight, heads) == IF f_args.apply_rotary
                                THEN permute_for_rotary(weight, heads).val
                                ELSE weight
    IN  /\ f_pc = "qkv_raised"
             => (f_args.apply_rotary /\ hd % 2 = 1 /\ f_fused.exc = "AssertionError")
        /\ f_pc = "qkv"
             => /\ Rows(f_fused.val) = (n + 2 * kv) * hd
                /\ Cols(f_fused.val) = Cols(f_args.q_weight)
                /\ SubSeq(f_fused.val, 1, n * hd) = Block(f_args.q_weight, n)
                /\ SubSeq(f_fused.val, n * hd + 1, (n + kv) * hd) = Block(f_args.k_weight, kv)
                /\ SubSeq(f_fused.val, (n + kv) * hd + 1, (n + 2 * kv) * hd) = f_args.v_weight

\* grouped-query attention with rotary permutation: 2 query heads, 1 key/value
\* head, head_dim 4
C26_Witness ==
    /\ f_pc = "qkv"
    /\ f_args.apply_rotary
    /\ f_args.n_heads = 2
    /\ f_args.n_kv_heads = <<1>>
    /\ HeadDim = 4
    /\ Rows(f_fused.val) = 16
    /\ f_fused.val[2] # f_args.q_weight[2]
    /\ f_fused.val[10] # f_args.k_weight[2]

\* C27: apply_gate_up_fusion(gate, up) returns concat([gate, up]) along
\* dimension 0: len(gate) + len(up) rows, the first len(gate) of them gate,
\* the rest up. (torch.cat raises when the column counts differ.)
C27_GateUpOrderLaw ==
    LET gate == f_args.gate_weight
        up == f_args.up_weight
    IN  /\ f_pc = "gate_up_raised"
             => (Cols(gate) # Cols(up) /\ f_fused.exc = "RuntimeError")
        /\ f_pc = "gate_up"
             => /\ Rows(f_fused.val) = Rows(gate) + Rows(up)
                /\ SubSeq(f_fused.val, 1, Rows(gate)) = gate
                /\ SubSeq(f_fused.val, Rows(gate) + 1, Rows(f_fused.val)) = up
                /\ f_fused.val = gate \o up

\* gate of one row and up of two
C27_Witness ==
    /\ f_pc = "gate_up"
    /\ Rows(f_args.gate_weight) = 1
    /\ Rows(f_args.up_weight) = 2
    /\ Rows(f_fused.val) = 3

\* C29: no parameter is written by two writers at the same time: the
\* receiver's copy and the worker's copy never overlap on one parameter.
C29_NoOverlap == ~(p_receiver # "none" /\ p_worker = p_receiver)

\* C30: the receiver is never started before its registry exists. When the
\* updater process was started the model was loaded, its state_dict was
\* complete, every tensor of it was in shared memory, and it was stored on
\* the runner and registered; the receive loop copies only into such a
\* state_dict.
C30_RegistryBeforeReceiver ==
    (p_updater \in {"started", "stopped"} \/ p_receiver # "none")
        => /\ p_started_with = [model |-> "loaded", state_dict |-> PatchParams,
                                shared |-> PatchParams, attr |-> TRUE,
                                registered |-> TRUE]
           /\ p_registry[0] = PatchParams
           /\ p_pc = "done"

\* The updater process runs and its receive loop is copying into a parameter
C30_Witness ==
    /\ p_updater = "started"
    /\ p_receiver = "w2"
    /\ p_started_with.state_dict = PatchParams

\* C31: the WeightUpdater reverts to the last known good state on failure.
\* In the step in which a batch update or a single update raises, every
\* registry parameter takes its value at the most recent checkpoint and the
\* run loop stays in its loop; the checkpoint is the registry as it was at
\* construction, at the last CHECKPOINT message or at the end of the last
\* successful batch, and no other step changes it.
C31_RevertOnFailure ==
    [][/\ (u_items' = u_items + 1 /\ u_exc' # "none" /\ u_cause' # "checkpoint")
            => /\ param_registry' = last_good_state
               /\ last_good_state' = last_good_state
               /\ u_pc' = "run"
       /\ (u_items' = u_items + 1 /\ u_cause' = "checkpoint")
            => last_good_state' = param_registry'
       /\ last_good_state' # last_good_state
            => /\ u_exc' = "none"
               /\ u_pc' = "run"
               /\ last_good_state' = param_registry']_vars

\* A call has just failed after it (or an update since the last checkpoint)
\* had changed a parameter: the registry is back at the checkpoint and the
\* loop goes on
C31_Witness ==
    /\ u_exc # "none"
    /\ u_cause # "checkpoint"
    /\ u_pc = "run"
    /\ u_effects # param_registry
    /\ param_registry = last_good_state

\* C38: a rolled-back batch leaves no trace. In the step in which an item of
\* a batch raises and the registry is restored, no component that an earlier
\* item of that batch put into a fusion buffer is still buffered, so none
\* can enter a later fusion.
BufferedBy(name, qkv, gate_up) ==
    /\ name \in DOMAIN transform_config
    /\ LET buffers == IF transform_config[name].type = "qkv_fusion" THEN qkv ELSE gate_up
           layer_key == extract_layer_key(name)
       IN  /\ layer_key \in DOMAIN buffers
           /\ transform_config[name].component \in DOMAIN buffers[layer_key]

C38_NoTraceOfFailedBatch ==
    [][(u_pc = "batch" /\ u_items' = u_items + 1 /\ u_exc' # "none")
          => \A name \in u_seen : ~BufferedBy(name, qkv_buffers', gate_up_buffers')]_vars

\* C32: weights sent by the broadcaster reach the live registry. When the
\* payload broadcast of a parameter completes whose name is in the receiver's
\* registry with the tensor's shape, registry[name] holds the tensor's values
\* from that step on until the name is sent again, the receiver has applied it
\* before the sender's next call (so in the sender's order), and no other
\* parameter changes; when broadcast_shutdown_signal has returned the
\* receiver has left its loop on the shutdown header and destroyed its
\* process group.
C32_SentReachesRegistry ==
    [][/\ (s_pc = "payload" /\ s_pc' = "ready" /\ s_name \in DOMAIN state_dict
             /\ state_dict[s_name].shape = s_tensor.shape)
            => /\ r_param.name = s_name
               /\ state_dict'[s_name].data = s_tensor.data
               /\ applied_count' = applied_count + 1
               /\ \A n \in DOMAIN state_dict \ {s_name} : state_dict'[n] = state_dict[n]
       /\ state_dict' # state_dict => (s_pc = "payload" /\ s_pc' = "ready")
       /\ s_pc' = "done"
            => /\ r_pc' = "exited"
               /\ r_param'.kind = "shutdown"
               /\ r_group' = "destroyed"]_vars

\* "a" and "b" were sent with tensors of their shapes, then the shutdown
\* signal: both hold the values sent, the loop is left, the group destroyed
C32_Witness ==
    /\ s_pc = "done"
    /\ r_pc = "exited"
    /\ r_group = "destroyed"
    /\ applied_count = 2
    /\ state_dict[<<97>>].data = <<1, 1>>
    /\ state_dict[<<98>>].data = <<2, 2>>

\* C33: for a model configuration with L layers the configuration built has
\* exactly 5 * L entries: for each layer i in 0..L-1 the names
\* model.layers.i.self_attn.{q,k,v}_proj.weight with type qkv_fusion, their
\* component and the configured n_heads, and the names
\* model.layers.i.mlp.{gate,up}_proj.weight with type gate_up_fusion and
\* their component; no other name.
ConfigName(i, block, component) ==
    <<"model", "layers", ToString(i), block, component \o "_proj", "weight">>

C33_ConfigEntries ==
    f_pc = "config"
        => LET config == f_fused.val
               layers == 0..(f_args.n_layers - 1)
           IN  /\ Cardinality(DOMAIN config) = 5 * f_args.n_layers
               /\ DOMAIN config =
                     {ConfigName(i, "self_attn", c) : i \in layers, c \in {"q", "k", "v"}}
                     \cup {ConfigName(i, "mlp", c) : i \in layers, c \in {"gate", "up"}}
               /\ \A i \in layers :
                     /\ \A c \in {"q", "k", "v"} :
                           /\ config[ConfigName(i, "self_attn", c)].type = "qkv_fusion"
                           /\ config[ConfigName(i, "self_attn", c)].component = c
                           /\ config[ConfigName(i, "self_attn", c)].n_heads = f_args.n_heads
                     /\ \A c \in {"gate", "up"} :
                           /\ config[ConfigName(i, "mlp", c)].type = "gate_up_fusion"
                           /\ config[ConfigName(i, "mlp", c)].component = c

\* two layers, two heads: ten entries
C33_Witness ==
    /\ f_pc = "config"
    /\ f_args.n_layers = 2
    /\ f_args.n_heads = 2
    /\ Cardinality(DOMAIN f_fused.val) = 10


\* The collective calls a worker has made so far, in order
IsCollective(ev) ==
    ev.kind \in {"barrier", "receive_distro_results", "receive_batch", "all_reduce"}

Collectives(w) == SelectSeq(log[w], IsCollective)

\* C34: with several workers reading the same store, no worker dispatches
\* operation i+1 while another has not finished operation i, the iteration
\* indices of two workers never differ by more than one, and the k-th
\* collective call of one worker is the k-th collective call of every other
\* worker that has made k calls: the same call in the same iteration.
C34_Lockstep ==
    \A w1 \in ranks : \A w2 \in ranks :
        /\ pc[w1] = "dispatch" => iteration[w2] >= iteration[w1]
        /\ iteration[w1] - iteration[w2] <= 1
        /\ \A k \in 1..Len(Collectives(w1)) :
              k <= Len(Collectives(w2)) => Collectives(w1)[k] = Collectives(w2)[k]

\* One worker has finished a train step, all-reduce included, and is a whole
\* iteration ahead of the other, which still dispatches that step.
C34_Witness ==
    \E w1 \in ranks : \E w2 \in ranks :
        /\ pc[w1] = "fetch"
        /\ iteration[w1] = 2
        /\ Event("all_reduce", 1) \in {log[w1][k] : k \in 1..Len(log[w1])}
        /\ pc[w2] = "dispatch"
        /\ iteration[w2] = 1
        /\ operation[w2].operation = "train"


\* The value the worker's state_dict should hold for a name after the update
NewTensors(name) ==
    {e_weight_dict[i][2] : i \in {j \in 1..Len(e_weight_dict) : e_weight_dict[j][1] = name}}

\* C35: once update_weights has returned in patched mode, with the shared
\* state_dict available in the worker, every name of weight_dict that is in
\* the worker's state_dict with the shape of the new tensor holds the new
\* value.
C35_EngineUpdateApplied ==
    (e_pc = "returned" /\ e_attr) =>
        \A name \in DOMAIN e_state_dict : \A t \in NewTensors(name) :
            t.shape = e_state_dict[name].shape => e_state_dict[name].value = t.value

\* The same for a list of dicts: the worker copies every such value.
DictFormatApplied ==
    (e_pc = "returned_dicts" /\ e_attr) =>
        \A name \in DOMAIN e_state_dict : \A t \in NewTensors(name) :
            t.shape = e_state_dict[name].shape => e_state_dict[name].value = t.value


\* The messages put before the first "SHUTDOWN"
RECURSIVE BeforeShutdown(_)
BeforeShutdown(ms) ==
    IF ms = <<>> \/ Head(ms).kind = "SHUTDOWN"
    THEN <<>>
    ELSE <<Head(ms)>> \o BeforeShutdown(Tail(ms))

ShutdownEnqueued == \E k \in 1..Len(q_enqueued) : q_enqueued[k].kind = "SHUTDOWN"

\* C36: the daemon handles the messages in the order they were put and none
\* put after the first SHUTDOWN, and when its loop has ended every message
\* put before the first SHUTDOWN has been handled.
C36_FifoUntilShutdown ==
    /\ IsPrefix(q_processed, BeforeShutdown(q_enqueued))
    /\ q_pc \in {"stopped", "terminated"} => q_processed = BeforeShutdown(q_enqueued)

\* What holds of run() itself: the order, and completeness when the loop ends
\* by its own break.
FifoUntilBreak ==
    /\ IsPrefix(q_processed, BeforeShutdown(q_enqueued))
    /\ q_pc = "stopped" => q_processed = BeforeShutdown(q_enqueued)

\* Once SHUTDOWN is in the queue the loop ends.
ShutdownEndsLoop == ShutdownEnqueued ~> (q_pc \in {"stopped", "terminated"})


\* A call of broadcast_parameter that raised exc
CallRaised(exc) ==
    /\ s_calls' = s_calls + 1
    /\ s_exc' = exc
    /\ s_issued' = s_issued
    /\ s_pc' = "ready"

\* A call that went to its header broadcast, and the payload broadcast that
\* follows the return of the header broadcast
CallIssued ==
    /\ s_calls' = s_calls + 1
    /\ s_exc' = "none"
    /\ s_issued' = s_issued + 1
    /\ s_pc' = "header"

PayloadFollows == s_pc = "header" => (s_pc' = "payload" /\ s_issued' = s_issued + 1)

\* C37 as stated: a call of broadcast_parameter issues the header broadcast and
\* then the payload broadcast, or raises ValueError with no broadcast issued.
C37_TwoBroadcastsOrValueError ==
    [][/\ s_calls' # s_calls => (CallIssued \/ CallRaised("ValueError"))
       /\ PayloadFollows]_vars

\* C37, amended: a call of broadcast_parameter issues the header broadcast and
\* then the payload broadcast, or raises with no broadcast issued: ValueError
\* for a name over 100 bytes or a dtype outside DTYPE_TO_ID, IndexError when
\* name and shape leave no slot of the header for the dtype id.
C37_TwoBroadcastsOrNone ==
    [][/\ s_calls' # s_calls =>
            (CallIssued \/ CallRaised("ValueError") \/ CallRaised("IndexError"))
       /\ PayloadFollows]_vars

\* Both broadcasts of one call were made, and the next call raised IndexError
\* with none.
C37_Witness ==
    /\ s_calls = 2
    /\ s_exc = "IndexError"
    /\ s_issued = 2
    /\ s_pc = "ready"
    /\ update_count = 1


OperationTags == {"hyperparameters", "train", "optimize", "extract", "forward", "exit"}

\* C39: a worker that dispatches a descriptor whose tag is none of the six
\* operations ends with an error; its iteration index does not advance.
C39_UnknownTagRejected ==
    [][\A w \in ranks :
          (pc[w] = "dispatch" /\ operation[w].operation \notin OperationTags
              /\ pc'[w] # pc[w])
          => (pc'[w] = "raised" /\ error'[w] # "none" /\ iteration'[w] = iteration[w])]_vars


LeftLoop(w) == pc[w] \in {"returned", "raised"}

AllLeft == \A w \in ranks : LeftLoop(w)

\* C40: with the worker processes running and the coordinator taking part in
\* every collective, every worker leaves the control loop, whether the keys end
\* with an exit descriptor or just end, and when all have left they have left
\* at the same iteration index.
C40_AllLeaveAtSameIndex ==
    /\ <>[]AllLeft
    /\ [](AllLeft => \A w1 \in ranks : \A w2 \in ranks : iteration[w1] = iteration[w2])

\* Two workers have left by the exit descriptor under key "1", after a
\* configuration.
C40_Witness ==
    /\ AllLeft
    /\ \A w \in ranks :
          /\ iteration[w] = 1
          /\ operation[w].operation = "exit"
          /\ pc[w] = "returned"
          /\ trainer[w] = "Trainer"

====
